---- MODULE Spec2Model ----
(***************************************************************************)
(* Model of the resumable render protocol of genpdf's elements             *)
(* (src/src/elements.rs): LinearLayout, Paragraph, TableLayout with its    *)
(* FrameCellDecorator, FramedElement and BulletPoint.                      *)
(*                                                                         *)
(* Lengths are integers (one unit is one Mm step).  An area is the record  *)
(* [width, height] of the space that is left in it; a render result is     *)
(* [size |-> [width, height], has_more, err] where err stands for the Err  *)
(* arm of Result<RenderResult, Error>.                                     *)
(***************************************************************************)
EXTENDS Integers, Sequences, FiniteSets, TLC

\* ------------------------------------------------------------------ bounds

MaxChildren == 2
MaxCalls == 2
MaxAreaHeight == 2
MaxLines == 2
MaxAreaWidth == 3
MaxRows == 2
MaxPushes == 2
MaxTextLen == 4
MaxPadding == 1
MaxEvents == 3
MaxWeight == 3        \* the largest weight of a column
MaxColumns == 2       \* the most columns of a table with weights of every size

\* --------------------------------------------------------------- variables

VARIABLES
    root,           \* the element the driver renders: "LinearLayout", "TableLayout", ...
    tracing,        \* TRUE when render calls are recorded in the histories
    ll_elements,    \* LinearLayout.elements
    ll_render_idx,  \* LinearLayout.render_idx
    ll_result,      \* result of the last LinearLayout.render call
    ll_hist,        \* every child render call so far: [call, idx, area, size, has_more]
    ll_calls,       \* per render call: [area, result]
    ll_failed,      \* a render call returned Err (fatal for the render pass)
    t_column_weights, \* TableLayout.column_weights
    t_rows,         \* TableLayout.rows, each row [id, cells]: id is the number of
                    \* the push_row call that brought it (history only)
    t_render_idx,   \* TableLayout.render_idx
    t_decorator,    \* TableLayout.cell_decorator: [present, inner, outer, cont,
                    \* num_columns, num_rows, last_row] (last_row = -1 is None)
    t_result,       \* result of the last TableLayout.render call
    t_hist,         \* every render_row call so far
    t_calls,        \* per render call: [area, result, idx_before, n]
    t_pushes,       \* per push_row call: [id, len, ok]
    t_failed,       \* a render call returned Err
    f_element,      \* FramedElement.element
    f_is_first,     \* FramedElement.is_first
    f_result,       \* result of the last FramedElement.render call
    f_hist,         \* per render call: [area, child, top, bottom, left, right, result]
    f_failed,       \* a render call returned Err
    b_element,      \* BulletPoint.element
    b_bullet_rendered, \* BulletPoint.bullet_rendered
    b_result,       \* result of the last BulletPoint.render call
    b_hist,         \* per render call: [area, child, printed, result]
    b_failed,       \* a render call returned Err
    p_text,         \* Paragraph.text: the strings not yet split into words
    p_words,        \* Paragraph.words: the pending word queue
    p_alignment,    \* Paragraph.alignment
    p_hyphenator,   \* Context.hyphenator is set
    p_orig,         \* the characters of the text the paragraph was built from
    p_emitted,      \* the characters of the text printed so far, over all calls
    p_result,       \* result of the last Paragraph.render call
    p_last,         \* the last call: [area, lines, rendered_len, split]
    p_resumed,      \* a call printed a line after the call before it had cut the
                    \* front word in place and paused
    p_failed,        \* a render call returned Err
    p_line_height,  \* the line height of the font the paragraph is set in
    pd_element,     \* PaddedElement.element
    pd_padding,     \* PaddedElement.padding: [top, right, bottom, left]
    pd_hist,        \* per render call: [area, child_area, child, result]
    pd_failed,       \* a render call returned Err
    m_math_ops,     \* MathBlock.math_ops; every op carries src, the numbers of the
                    \* events drawn by it (history only)
    m_current_color, \* MathBlock.current_color
    m_events,       \* the glyph and rule events so far: [kind, x, y, glyph_id,
                    \* font_size, advance, color, after_nested_end]
    m_toggle,       \* the last begin_color / end_color event: [kind, color]
    m_nested,        \* 1: the last two toggles were begin_color; 2: an end_color
                    \* followed them; 0 otherwise
    s_element,      \* StyledElement.element
    s_style,        \* StyledElement.style: the set of its effects
    s_hist,         \* per render call: [area, style, child_style, child, result]
    s_failed,        \* a render call returned Err
    l_layout,       \* the list's layout: bullet points [element, bullet_rendered, bullet]
    l_render_idx,   \* the render_idx of the list's layout
    l_number,       \* OrderedList.number
    l_bullet,       \* UnorderedList.bullet: [present, s]
    l_start,        \* the number the ordered list was created with (history only)
    l_pushes,       \* the method of every push so far (history only)
    l_calls,        \* the number of render calls so far
    l_failed,        \* a render call returned Err
    br_lines,       \* Break.lines
    br_n,           \* the number of lines the break was created with (history only)
    br_hist,         \* per render call: [area, lines_before, result]
    cb_code,        \* CodeBlock.code: the characters not yet rendered
    cb_language,    \* CodeBlock.language
    cb_theme,       \* CodeBlock.theme: [present, name]
    cb_orig,        \* the code the block was created with (history only)
    cb_hist         \* per render call: [area, code_before, printed, result]

ll_vars == <<ll_elements, ll_render_idx, ll_result, ll_hist, ll_calls, ll_failed>>

t_vars == <<t_column_weights, t_rows, t_render_idx, t_decorator, t_result, t_hist,
            t_calls, t_pushes, t_failed>>

f_vars == <<f_element, f_is_first, f_result, f_hist, f_failed>>

b_vars == <<b_element, b_bullet_rendered, b_result, b_hist, b_failed>>

p_vars == <<p_text, p_words, p_alignment, p_hyphenator, p_orig, p_emitted, p_result,
            p_last, p_resumed, p_failed,
            p_line_height>>

pd_vars == <<pd_element, pd_padding, pd_hist, pd_failed>>

m_vars == <<m_math_ops, m_current_color, m_events, m_toggle, m_nested>>

s_vars == <<s_element, s_style, s_hist, s_failed>>

l_vars == <<l_layout, l_render_idx, l_number, l_bullet, l_start, l_pushes, l_calls, l_failed>>

br_vars == <<br_lines, br_n, br_hist>>

cb_vars == <<cb_code, cb_language, cb_theme, cb_orig, cb_hist>>

vars == <<root, tracing, ll_vars, t_vars, f_vars, b_vars, p_vars, pd_vars, m_vars, s_vars, l_vars, br_vars, cb_vars>>

\* what the operations of one element leave alone: the other elements
except_ll == <<root, tracing, t_vars, f_vars, b_vars, p_vars, pd_vars, m_vars, s_vars, l_vars, br_vars, cb_vars>>
except_t == <<root, tracing, ll_vars, f_vars, b_vars, p_vars, pd_vars, m_vars, s_vars, l_vars, br_vars, cb_vars>>
except_f == <<root, tracing, ll_vars, t_vars, b_vars, p_vars, pd_vars, m_vars, s_vars, l_vars, br_vars, cb_vars>>
except_b == <<root, tracing, ll_vars, t_vars, f_vars, p_vars, pd_vars, m_vars, s_vars, l_vars, br_vars, cb_vars>>
except_p == <<root, tracing, ll_vars, t_vars, f_vars, b_vars, pd_vars, m_vars, s_vars, l_vars, br_vars, cb_vars>>
except_pd == <<root, tracing, ll_vars, t_vars, f_vars, b_vars, p_vars, m_vars, s_vars, l_vars, br_vars, cb_vars>>
except_m == <<root, tracing, ll_vars, t_vars, f_vars, b_vars, p_vars, pd_vars, s_vars, l_vars, br_vars, cb_vars>>
except_s == <<root, tracing, ll_vars, t_vars, f_vars, b_vars, p_vars, pd_vars, m_vars, l_vars, br_vars, cb_vars>>
except_l == <<root, tracing, ll_vars, t_vars, f_vars, b_vars, p_vars, pd_vars, m_vars, s_vars, br_vars, cb_vars>>
except_br == <<root, tracing, ll_vars, t_vars, f_vars, b_vars, p_vars, pd_vars, m_vars, s_vars, l_vars, cb_vars>>
except_cb == <<root, tracing, ll_vars, t_vars, f_vars, b_vars, p_vars, pd_vars, m_vars, s_vars, l_vars, br_vars>>

\* ---------------------------------------------------------------- geometry

Max(a, b) == IF a >= b THEN a ELSE b
Min(a, b) == IF a <= b THEN a ELSE b

\* F applied to the value of v, which is computed once
Eval(v, F(_)) == CHOOSE y \in {F(x) : x \in {v}} : TRUE

ZeroSize == [width |-> 0, height |-> 0]

\* Size::stack_vertical: width = max of the widths, height = sum of the heights
StackVertical(a, b) ==
    [width |-> Max(a.width, b.width), height |-> a.height + b.height]

\* Area::add_offset(Position::new(0, dy)): the origin moves down, the size shrinks
AddOffsetY(area, dy) == [area EXCEPT !.height = @ - dy]

\* RenderResult::default()
DefaultResult == [size |-> ZeroSize, has_more |-> FALSE, err |-> FALSE]

ErrResult == [size |-> ZeroSize, has_more |-> FALSE, err |-> TRUE]

\* fonts::Metrics of the only font of the model: line_height = glyph_height
LineHeight == 1

\* TextSection::new: a line can be placed iff its glyph height fits the area
FitsLine(area) == LineHeight <= area.height

\* ---------------------------------------------------------- child elements
\* A child element is one of
\*   [kind |-> "Paragraph", lines, width, overlong]  a paragraph whose pending
\*        words wrap to `lines` lines of width `width`; overlong: it holds a
\*        word wider than every area, so the wrapper overflows
\*   [kind |-> "PageBreak", cont]
\*   [kind |-> "Text", width]

ParagraphElem(n, w) == [kind |-> "Paragraph", lines |-> n, width |-> w, overlong |-> FALSE]
OverlongElem == [kind |-> "Paragraph", lines |-> 1, width |-> 1, overlong |-> TRUE]
LateOverlongElem ==
    [kind |-> "Paragraph", lines |-> MaxLines + 2, width |-> 1, overlong |-> TRUE]
PageBreakElem == [kind |-> "PageBreak", cont |-> FALSE]
TextElem(w) == [kind |-> "Text", width |-> w]

\* number of the n pending lines that the line loop of Paragraph::render places
RECURSIVE PlacedLines(_, _)
PlacedLines(n, area) ==
    IF n > 0 /\ FitsLine(area)
    THEN 1 + PlacedLines(n - 1, AddOffsetY(area, LineHeight))
    ELSE 0

\* Paragraph::render, by lines: [elem, res, emitted]; the last line of an
\* overlong paragraph is the word the wrapper overflows at: the wrapper yields
\* the lines before it, and the call returns Err when the line loop has come to
\* the last of them (the wrapper is one line ahead of the loop), before the
\* rendered lines are removed from the paragraph
Paragraph_render_lines(e, area) ==
    IF e.overlong /\ PlacedLines(e.lines - 1, area) >= e.lines - 2
    THEN [elem |-> e, res |-> ErrResult, emitted |-> PlacedLines(e.lines - 1, area)]
    ELSE LET k == PlacedLines(IF e.overlong THEN e.lines - 1 ELSE e.lines, area) IN
         [elem |-> [e EXCEPT !.lines = @ - k],
          res |-> [size |-> IF k > 0 THEN [width |-> e.width, height |-> k * LineHeight]
                                      ELSE ZeroSize,
                   has_more |-> k < e.lines,
                   err |-> FALSE],
          emitted |-> k]

\* PageBreak::render
PageBreak_render_again(e, area) ==
    [elem |-> [e EXCEPT !.cont = TRUE],
     res |-> [size |-> [width |-> 1, height |-> 0], has_more |-> TRUE, err |-> FALSE],
     emitted |-> 0]
PageBreak_render(e, area) ==
    IF e.cont
    THEN [elem |-> e, res |-> DefaultResult, emitted |-> 0]
    ELSE [elem |-> [e EXCEPT !.cont = TRUE],
          res |-> [size |-> [width |-> 1, height |-> 0], has_more |-> TRUE, err |-> FALSE],
          emitted |-> 0]

\* Text::render
Text_render(e, area) ==
    IF FitsLine(area)
    THEN [elem |-> e,
          res |-> [size |-> [width |-> e.width, height |-> LineHeight],
                   has_more |-> FALSE, err |-> FALSE],
          emitted |-> 1]
    ELSE [elem |-> e, res |-> [DefaultResult EXCEPT !.has_more = TRUE], emitted |-> 0]

\* Element::render, dispatched on the element's type
Element_render(e, area) ==
    CASE e.kind = "Paragraph" -> Paragraph_render_lines(e, area)
      [] e.kind = "PageBreak" -> PageBreak_render(e, area)
      [] e.kind = "Text" -> Text_render(e, area)

\* the elements a caller may push
Children ==
    {ParagraphElem(n, n) : n \in 1..MaxLines}
        \cup {OverlongElem, PageBreakElem, TextElem(MaxAreaWidth)}

Areas == {[width |-> MaxAreaWidth, height |-> h] : h \in 0..MaxAreaHeight}
PositiveAreas == {a \in Areas : a.height > 0}

\* ------------------------------------------------------------ LinearLayout

\* LinearLayout::push
LinearLayout_push(elements, e) == Append(elements, e)

\* the loop condition of render_vertical (idx counts from 0, as in the source)
LLContinueNoHeight(area, idx, n) == idx < n
LLContinue(area, idx, n) == area.height > 0 /\ idx < n

\* area.add_offset(Position::new(0, element_result.size.height))
LLNextAreaSame(area, size) == area
LLNextArea(area, size) == AddOffsetY(area, size.height)

\* result.size = result.size.stack_vertical(element_result.size)
LLAccumulateMaxHeight(acc, size) ==
    [width |-> Max(acc.width, size.width), height |-> Max(acc.height, size.height)]
LLAccumulate(acc, size) == StackVertical(acc, size)

\* self.render_idx += 1
LLAdvanceSkip(idx) == idx + 2
LLAdvance(idx) == idx + 1

\* result.has_more = self.render_idx < self.elements.len()
LLFinalHasMore(idx, n) == idx < n

\* LinearLayout::render_vertical from the state (elements, idx) into `area`, with
\* the size accumulated so far and the child calls made so far in this call:
\* [elements, render_idx, result, log]
RECURSIVE LLLoop(_, _, _, _, _)
LLLoop(elements, idx, area, acc, log) ==
    IF LLContinue(area, idx, Len(elements))
    THEN LET r == Element_render(elements[idx + 1], area)
             els == [elements EXCEPT ![idx + 1] = r.elem]
         IN  IF r.res.err
             THEN [elements |-> els, render_idx |-> idx, result |-> ErrResult,
                   log |-> Append(log, [idx |-> idx, area |-> area, res |-> r.res])]
             ELSE LET size == LLAccumulate(acc, r.res.size)
                      log2 == Append(log, [idx |-> idx, area |-> area, res |-> r.res])
                  IN  IF r.res.has_more
                      THEN [elements |-> els, render_idx |-> idx,
                            result |-> [size |-> size, has_more |-> TRUE, err |-> FALSE],
                            log |-> log2]
                      ELSE LLLoop(els, LLAdvance(idx), LLNextArea(area, r.res.size),
                                  size, log2)
    ELSE [elements |-> elements, render_idx |-> idx,
          result |-> [size |-> acc, has_more |-> LLFinalHasMore(idx, Len(elements)),
                      err |-> FALSE],
          log |-> log]

LinearLayout_render_vertical(elements, idx, area) ==
    LLLoop(elements, idx, area, ZeroSize, <<>>)

\* the child calls of one render call, stamped with the number of the call
Stamp(log, c) == [i \in 1..Len(log) |-> [call |-> c] @@ log[i]]

LLInit ==
    /\ ll_elements = <<>>
    /\ ll_render_idx = 0
    /\ ll_result = DefaultResult
    /\ ll_hist = <<>>
    /\ ll_calls = <<>>
    /\ ll_failed = FALSE

\* the layout of a specification that is about another element
LLIdle == LLInit

\* a caller pushes a child
LLPush(e) ==
    /\ root = "LinearLayout"
    /\ Len(ll_elements) < MaxChildren
    /\ ~ll_failed
    /\ ll_elements' = LinearLayout_push(ll_elements, e)
    /\ UNCHANGED <<ll_render_idx, ll_result, ll_hist, ll_calls, ll_failed, except_ll>>

\* the driver calls LinearLayout::render with a fresh area; an Err is fatal for
\* the render pass, so no call follows one
LLRender(area) ==
    /\ root = "LinearLayout"
    /\ ~ll_failed
    /\ tracing => Len(ll_calls) < MaxCalls
    /\ \E out \in {LinearLayout_render_vertical(ll_elements, ll_render_idx, area)} :
         /\ ll_elements' = out.elements
         /\ ll_render_idx' = out.render_idx
         /\ ll_result' = out.result
         /\ ll_failed' = out.result.err
         /\ IF tracing
            THEN /\ ll_hist' = ll_hist \o Stamp(out.log, Len(ll_calls) + 1)
                 /\ ll_calls' = Append(ll_calls,
                        [area |-> area, result |-> out.result,
                         idx_before |-> ll_render_idx, n |-> Len(ll_elements)])
            ELSE UNCHANGED <<ll_hist, ll_calls>>
    /\ UNCHANGED except_ll


\* ------------------------------------------------------------- TableLayout

\* LineStyle::thickness() of the decorator's and the frame's line style
LineThickness == 1

\* Area::add_margins(Margins::trbl(top, right, bottom, left))
AddMargins(area, top, right, bottom, left) ==
    [width |-> area.width - (left + right), height |-> area.height - (top + bottom)]

RECURSIVE SumSeq(_)
SumSeq(q) == IF q = <<>> THEN 0 ELSE q[1] + SumSeq(Tail(q))

\* Area::split_horizontally(weights): adjacent areas of the full height whose
\* widths are proportional to the weights
SplitEqually(area, weights) ==
    [i \in 1..Len(weights) |->
        [width |-> area.width \div Len(weights), height |-> area.height]]
SplitHorizontally(area, weights) ==
    [i \in 1..Len(weights) |->
        [width |-> (area.width * weights[i]) \div SumSeq(weights),
         height |-> area.height]]

NoDecorator ==
    [present |-> FALSE, inner |-> FALSE, outer |-> FALSE, cont |-> FALSE,
     num_columns |-> 0, num_rows |-> 0, last_row |-> -1]

\* FrameCellDecorator::new(inner, outer, cont)
FrameCellDecorator_new(inner, outer, cont) ==
    [present |-> TRUE, inner |-> inner, outer |-> outer, cont |-> cont,
     num_columns |-> 0, num_rows |-> 0, last_row |-> -1]

\* FrameCellDecorator::set_table_size
set_table_size(d, num_columns, num_rows) ==
    [d EXCEPT !.num_columns = num_columns, !.num_rows = num_rows]

print_left(d, column) == IF column = 0 THEN d.outer ELSE d.inner

print_right(d, column) == IF column + 1 = d.num_columns THEN d.outer ELSE FALSE

print_top_never_cont(d, row) == IF row = 0 THEN d.outer ELSE d.inner
print_top(d, row) ==
    IF d.last_row = -1 \/ row > d.last_row
    THEN (IF row = 0 THEN d.outer ELSE d.inner)
    ELSE d.cont

print_bottom(d, row, has_more) ==
    IF has_more THEN d.cont
    ELSE IF row + 1 = d.num_rows THEN d.outer
    ELSE FALSE

Thick(b) == IF b THEN LineThickness ELSE 0

\* FrameCellDecorator::prepare_cell: the area the cell is rendered into
prepare_cell(d, column, row, area) ==
    AddMargins(area,
               Thick(print_top(d, row)),
               Thick(print_right(d, column)),
               Thick(print_bottom(d, row, FALSE)),
               Thick(print_left(d, column)))

\* self.last_row after decorate_cell
LastRowIfComplete(d, column, row, has_more) ==
    IF column + 1 = d.num_columns /\ ~has_more THEN row ELSE d.last_row
LastRow(d, column, row, has_more) ==
    IF column + 1 = d.num_columns THEN row ELSE d.last_row

\* FrameCellDecorator::decorate_cell: [d, height, top, right, bottom, left], the
\* decorator afterwards, the total row height returned and the lines drawn
decorate_cell(d, column, row, has_more, area, row_height) ==
    LET top == print_top(d, row)
        bottom == print_bottom(d, row, has_more)
    IN  [d |-> [d EXCEPT !.last_row = LastRow(d, column, row, has_more)],
         height |-> row_height + Thick(top) + Thick(bottom),
         top |-> top,
         right |-> print_right(d, column),
         bottom |-> bottom,
         left |-> print_left(d, column)]

\* TableLayout::push_row: [rows, ok]
TableLayout_push_row_unchecked(rows, column_weights, row) ==
    [rows |-> Append(rows, row), ok |-> Len(row.cells) = Len(column_weights)]
TableLayout_push_row(rows, column_weights, row) ==
    IF Len(row.cells) = Len(column_weights)
    THEN [rows |-> Append(rows, row), ok |-> TRUE]
    ELSE [rows |-> rows, ok |-> FALSE]

\* TableLayoutRow::push
TableLayoutRow_push(rows, column_weights, row) ==
    TableLayout_push_row(rows, column_weights, row)

\* the cell loop of render_row from column i (counted from 1) on:
\* [cells, has_more, row_height, err, log]
RowCellsStep(cells, cell_areas, i, has_more, row_height, log, r) ==
    [cells |-> [cells EXCEPT ![i] = r.elem],
     has_more |-> has_more \/ r.res.has_more,
     row_height |-> Max(row_height, r.res.size.height),
     err |-> r.res.err,
     log |-> Append(log, [area |-> cell_areas[i], res |-> r.res, emitted |-> r.emitted])]

RECURSIVE RowCells(_, _, _, _, _, _)
RowCells(cells, cell_areas, i, has_more, row_height, log) ==
    IF i > Min(Len(cells), Len(cell_areas))
    THEN [cells |-> cells, has_more |-> has_more, row_height |-> row_height,
          err |-> FALSE, log |-> log]
    ELSE Eval(RowCellsStep(cells, cell_areas, i, has_more, row_height, log,
                           Element_render(cells[i], cell_areas[i])),
              LAMBDA n :
                IF n.err
                THEN [n EXCEPT !.has_more = has_more, !.row_height = row_height]
                ELSE RowCells(n.cells, cell_areas, i + 1, n.has_more, n.row_height,
                              n.log))

\* the decorator loop of render_row from column i (counted from 1) on:
\* [d, height, log]
RECURSIVE RowDecorate(_, _, _, _, _, _, _, _)
RowDecorate(d, areas, i, row, has_more, row_height, height, log) ==
    IF i > Len(areas)
    THEN [d |-> d, height |-> height, log |-> log]
    ELSE Eval(decorate_cell(d, i - 1, row, has_more, areas[i], row_height),
              LAMBDA dc :
                RowDecorate(dc.d, areas, i + 1, row, has_more, row_height,
                            Max(height, dc.height),
                            Append(log, [row_height |-> row_height,
                                         has_more |-> has_more,
                                         height |-> dc.height, top |-> dc.top,
                                         right |-> dc.right, bottom |-> dc.bottom,
                                         left |-> dc.left])))

\* the height render_row reports for the row
RowTotalCellsOnly(row_height, decorated) == row_height
RowTotal(row_height, decorated) == decorated

\* result.has_more |= element_result.has_more
RowHasMoreLastCell(cells_has_more, log) ==
    log # <<>> /\ log[Len(log)].res.has_more
RowHasMore(cells_has_more, log) == cells_has_more

\* the cell areas of a row: the column areas, shrunk by the decorator if there is one
CellAreas(d, idx, areas) ==
    IF d.present
    THEN [i \in 1..Len(areas) |-> prepare_cell(d, i - 1, idx, areas[i])]
    ELSE areas

\* TableLayout::render_row for row `idx` (counted from 0):
\* [cells, d, result, entry]
RenderRowResult(idx, d, area, rc, has_more, dec) ==
    [cells |-> rc.cells,
     d |-> dec.d,
     result |-> IF rc.err THEN ErrResult
                ELSE [size |-> [width |-> 0,
                                height |-> RowTotal(rc.row_height, dec.height)],
                      has_more |-> has_more, err |-> FALSE],
     entry |-> [row |-> idx, area |-> area, cells |-> rc.log,
                row_height |-> rc.row_height, has_more |-> has_more,
                err |-> rc.err, total |-> RowTotal(rc.row_height, dec.height),
                decor |-> dec.log, last_row_before |-> d.last_row]]

\* the calls render_row makes for row `row`, in the order it makes them: the
\* decorator's prepare_cell for every column (the map over the areas), the
\* cells' render up to the first Err, the decorator's decorate_cell
RowEventsDecorateFirst(d, row, n, cells_log, decor_log) ==
    [i \in 1..Len(decor_log) |-> [op |-> "decorate_cell", column |-> i - 1, row |-> row]]
        \o (IF d.present
            THEN [i \in 1..n |-> [op |-> "prepare_cell", column |-> i - 1, row |-> row]]
            ELSE <<>>)
        \o [i \in 1..Len(cells_log) |-> [op |-> "render", column |-> i - 1, row |-> row]]
RowEvents(d, row, n, cells_log, decor_log) ==
    (IF d.present
     THEN [i \in 1..n |-> [op |-> "prepare_cell", column |-> i - 1, row |-> row]]
     ELSE <<>>)
        \o [i \in 1..Len(cells_log) |-> [op |-> "render", column |-> i - 1, row |-> row]]
        \o [i \in 1..Len(decor_log) |-> [op |-> "decorate_cell", column |-> i - 1, row |-> row]]

WithEvents(rr, events) == [rr EXCEPT !.entry = [events |-> events] @@ @]

TableLayout_render_row(cells, idx, column_weights, d, area) ==
    Eval(SplitHorizontally(area, column_weights), LAMBDA areas :
      Eval(RowCells(cells, CellAreas(d, idx, areas), 1, FALSE, 0, <<>>), LAMBDA rc :
        Eval(RowHasMore(rc.has_more, rc.log), LAMBDA has_more :
          Eval(IF d.present /\ ~rc.err
               THEN RowDecorate(d, areas, 1, idx, has_more, rc.row_height,
                                rc.row_height, <<>>)
               ELSE [d |-> d, height |-> rc.row_height, log |-> <<>>],
               LAMBDA dec :
                 WithEvents(RenderRowResult(idx, d, area, rc, has_more, dec),
                            RowEvents(d, idx, Len(areas), rc.log, dec.log))))))

\* result.has_more = self.render_idx < self.rows.len()
TFinalHasMoreAtCall(idx_before, idx, n) == idx_before < n
TFinalHasMore(idx_before, idx, n) == idx < n

\* self.render_idx += 1 after a complete row; a paused row keeps the cursor
TAdvanceAlways(idx, has_more) == idx + 1
TAdvance(idx, has_more) == IF has_more THEN idx ELSE idx + 1

\* the state of TableLayout::render after render_row returned rr for row idx:
\* [rows, render_idx, d, area, height, err, has_more, log]
TAfterRow(rows, idx, area, height, log, rr) ==
    [rows |-> [rows EXCEPT ![idx + 1].cells = rr.cells],
     render_idx |-> IF rr.result.err THEN idx ELSE TAdvance(idx, rr.result.has_more),
     d |-> rr.d,
     area |-> IF rr.result.err THEN area ELSE AddOffsetY(area, rr.result.size.height),
     height |-> IF rr.result.err THEN height ELSE height + rr.result.size.height,
     err |-> rr.result.err,
     has_more |-> rr.result.has_more,
     log |-> Append(log, [id |-> rows[idx + 1].id] @@ rr.entry)]

\* the row loop of TableLayout::render: [rows, render_idx, d, height, err, log]
RECURSIVE TLoop(_, _, _, _, _, _, _)
TLoop(rows, idx, column_weights, d, area, height, log) ==
    IF idx < Len(rows)
    THEN Eval(TAfterRow(rows, idx, area, height, log,
                        TableLayout_render_row(rows[idx + 1].cells, idx,
                                               column_weights, d, area)),
              LAMBDA n :
                IF n.err \/ n.has_more
                THEN [rows |-> n.rows, render_idx |-> n.render_idx, d |-> n.d,
                      height |-> n.height, err |-> n.err, log |-> n.log]
                ELSE TLoop(n.rows, n.render_idx, column_weights, n.d, n.area,
                           n.height, n.log))
    ELSE [rows |-> rows, render_idx |-> idx, d |-> d, height |-> height,
          err |-> FALSE, log |-> log]

\* the calls of one TableLayout::render in the order they are made
RECURSIVE RowsEvents(_)
RowsEvents(log) == IF log = <<>> THEN <<>> ELSE log[1].events \o RowsEvents(Tail(log))

SetTableSizeEvents(d, num_columns, num_rows) ==
    IF d.present
    THEN <<[op |-> "set_table_size", column |-> num_columns, row |-> num_rows]>>
    ELSE <<>>

\* TableLayout::render: [rows, render_idx, d, result, log, events]
TableLayout_render(rows, idx, column_weights, d, area) ==
    IF column_weights = <<>>
    THEN [rows |-> rows, render_idx |-> idx, d |-> d, result |-> DefaultResult,
          log |-> <<>>, events |-> <<>>]
    ELSE Eval(TLoop(rows, idx, column_weights,
                    IF d.present
                    THEN set_table_size(d, Len(column_weights), Len(rows))
                    ELSE d,
                    area, 0, <<>>),
              LAMBDA out :
                [rows |-> out.rows, render_idx |-> out.render_idx, d |-> out.d,
                 result |-> IF out.err THEN ErrResult
                            ELSE [size |-> [width |-> area.width, height |-> out.height],
                                  has_more |-> TFinalHasMore(idx, out.render_idx,
                                                             Len(out.rows)),
                                  err |-> FALSE],
                 log |-> out.log,
                 events |-> SetTableSizeEvents(d, Len(column_weights), Len(rows))
                                \o RowsEvents(out.log)])

\* the cells a caller puts into rows
TableCells == {ParagraphElem(MaxLines, 2), TextElem(1), OverlongElem}

\* the children and cells that reach has_more = FALSE after finitely many calls
FiniteChildren ==
    {c \in Children \cup TableCells : ~(c.kind = "Paragraph" /\ c.overlong)}

\* the rows a caller may push to a table of n columns: rows of n cells (at most
\* one of them a paragraph that overflows), and rows of n - 1 and of n + 1 cells
RowInputs(n) ==
    {r \in [1..n -> TableCells] :
        \A i \in 1..n : r[i] = OverlongElem => i = n /\ r[1] = TextElem(1)}
        \cup {[i \in 1..m |-> TextElem(1)] : m \in {k \in {n - 1, n + 1} : k >= 0}}

ColumnWeights == {<<>>, <<1>>, <<2, 1>>}

Decorators == {NoDecorator, FrameCellDecorator_new(TRUE, TRUE, TRUE)}

TableAreas == {[width |-> MaxAreaWidth, height |-> h] : h \in 0..(MaxAreaHeight + 1)}

\* the areas in which a cell can place a line whatever borders the decorator draws
RoomyTableAreas == {a \in TableAreas : a.height >= LineHeight + 2 * LineThickness}

\* FrameCellDecorator::new with every setting of the three flags
FrameDecorators ==
    {FrameCellDecorator_new(inner, outer, cont) :
        inner \in BOOLEAN, outer \in BOOLEAN, cont \in BOOLEAN}

\* the rows of a framed table: n cells that finish
FramedRows(n) == [1..n -> {ParagraphElem(MaxLines, 1), TextElem(1)}]

FramedColumnWeights == {<<2, 1>>}

\* the areas a framed table is rendered into
FramedTableAreas == {a \in TableAreas : a.height > 0}

\* TableLayout::new(column_weights), then set_cell_decorator or not
TInit ==
    /\ t_column_weights \in ColumnWeights
    /\ t_decorator \in Decorators
    /\ t_rows = <<>>
    /\ t_render_idx = 0
    /\ t_result = DefaultResult
    /\ t_hist = <<>>
    /\ t_calls = <<>>
    /\ t_pushes = <<>>
    /\ t_failed = FALSE

\* the table of a specification that is about another element
TIdle ==
    /\ t_column_weights = <<>>
    /\ t_decorator = NoDecorator
    /\ t_rows = <<>>
    /\ t_render_idx = 0
    /\ t_result = DefaultResult
    /\ t_hist = <<>>
    /\ t_calls = <<>>
    /\ t_pushes = <<>>
    /\ t_failed = FALSE

\* a caller pushes a row (TableLayout::push_row, or TableLayoutRow::push)
TPushRow(cells) ==
    /\ root = "TableLayout"
    /\ ~t_failed
    /\ Len(t_rows) < MaxRows
    /\ Len(t_pushes) < MaxPushes
    /\ LET id == Len(t_pushes) + 1
           out == TableLayoutRow_push(t_rows, t_column_weights,
                                      [id |-> id, cells |-> cells])
       IN  /\ t_rows' = out.rows
           /\ t_pushes' = Append(t_pushes, [id |-> id, len |-> Len(cells), ok |-> out.ok])
    /\ UNCHANGED <<t_column_weights, t_render_idx, t_decorator, t_result,
                   t_hist, t_calls, t_failed, except_t>>

\* the driver calls TableLayout::render with a fresh area
TRender(area) ==
    /\ root = "TableLayout"
    /\ ~t_failed
    /\ tracing => Len(t_calls) < MaxCalls
    /\ \E out \in {TableLayout_render(t_rows, t_render_idx, t_column_weights,
                                      t_decorator, area)} :
           /\ t_rows' = out.rows
           /\ t_render_idx' = out.render_idx
           /\ t_decorator' = out.d
           /\ t_result' = out.result
           /\ t_failed' = out.result.err
           /\ IF tracing
              THEN /\ t_hist' = t_hist \o Stamp(out.log, Len(t_calls) + 1)
                   /\ t_calls' = Append(t_calls,
                          [area |-> area, result |-> out.result,
                           idx_before |-> t_render_idx, n |-> Len(t_rows),
                           events |-> out.events])
              ELSE UNCHANGED <<t_hist, t_calls>>
    /\ UNCHANGED <<t_column_weights, t_pushes, except_t>>


\* ----------------------------------------------------------- FramedElement

\* FramedElement::with_line_style
FramedElement_new(e) == [element |-> e, is_first |-> TRUE]

\* the area the child is rendered into: the frame's lines are taken off the
\* right, the bottom and the left, and off the top while is_first holds
FElementAreaNoBottom(area, is_first) ==
    LET element_area == AddMargins(area, 0, LineThickness, 0, LineThickness)
    IN  IF is_first THEN AddMargins(element_area, LineThickness, 0, 0, 0)
                    ELSE element_area
FElementArea(area, is_first) ==
    LET element_area == AddMargins(area, 0, LineThickness, LineThickness, LineThickness)
    IN  IF is_first THEN AddMargins(element_area, LineThickness, 0, 0, 0)
                    ELSE element_area

\* the top line is drawn while is_first holds
FDrawTopAlways(is_first) == TRUE
FDrawTop(is_first) == is_first

\* the bottom line is drawn when the child has no more to render
FDrawBottomAlways(has_more) == TRUE
FDrawBottom(has_more) == ~has_more

\* is_first after a render call that returned Ok
FIsFirstKept(is_first) == is_first
FIsFirstAfter(is_first) == FALSE

\* FramedElement::render: [f, result, child, top, bottom, left, right]; the
\* child's Err is returned before anything is drawn and before is_first is cleared
FramedElement_render(f, area) ==
    Eval(Element_render(f.element, FElementArea(area, f.is_first)),
         LAMBDA r :
           IF r.res.err
           THEN [f |-> [f EXCEPT !.element = r.elem], result |-> ErrResult,
                 child |-> r.res,
                 top |-> FALSE, bottom |-> FALSE, left |-> FALSE, right |-> FALSE]
           ELSE LET top == FDrawTop(f.is_first)
                    bottom == FDrawBottom(r.res.has_more)
                IN  [f |-> [element |-> r.elem, is_first |-> FIsFirstAfter(f.is_first)],
                     result |-> [size |-> [width |-> area.width,
                                           height |-> r.res.size.height
                                               + (IF top THEN LineThickness ELSE 0)
                                               + (IF bottom THEN LineThickness ELSE 0)],
                                 has_more |-> r.res.has_more,
                                 err |-> FALSE],
                     child |-> r.res,
                     top |-> top, bottom |-> bottom, left |-> TRUE, right |-> TRUE])

\* the elements a caller may frame: paragraphs of up to MaxLines + 1 lines
FrameChildren ==
    {ParagraphElem(n, 1) : n \in 1..(MaxLines + 1)} \cup {OverlongElem, TextElem(1)}

\* the areas a frame is rendered into
FrameAreas ==
    {[width |-> MaxAreaWidth, height |-> h] : h \in 0..(MaxAreaHeight + 2 * LineThickness)}

FInit ==
    /\ \E e \in FrameChildren :
          /\ f_element = FramedElement_new(e).element
          /\ f_is_first = FramedElement_new(e).is_first
    /\ f_result = DefaultResult
    /\ f_hist = <<>>
    /\ f_failed = FALSE

\* the frame of a specification that is about another element
FIdle ==
    /\ f_element = TextElem(1)
    /\ f_is_first = TRUE
    /\ f_result = DefaultResult
    /\ f_hist = <<>>
    /\ f_failed = FALSE

\* the driver calls FramedElement::render with a fresh area
FRender(area) ==
    /\ root = "FramedElement"
    /\ ~f_failed
    /\ Len(f_hist) <= MaxCalls
    /\ \E out \in {FramedElement_render([element |-> f_element, is_first |-> f_is_first],
                                        area)} :
           /\ f_element' = out.f.element
           /\ f_is_first' = out.f.is_first
           /\ f_result' = out.result
           /\ f_failed' = out.result.err
           /\ f_hist' = Append(f_hist,
                  [area |-> area, child |-> out.child, top |-> out.top,
                   bottom |-> out.bottom, left |-> out.left, right |-> out.right,
                   result |-> out.result])
    /\ UNCHANGED except_f


\* ------------------------------------------------------------- BulletPoint

\* BulletPoint::new: indent
indent == 10

BulletPoint_new(e) == [element |-> e, bullet_rendered |-> FALSE]

\* Area::add_offset(Position::new(dx, 0)): the origin moves right, the width shrinks
AddOffsetX(area, dx) == [area EXCEPT !.width = @ - dx]

\* Area::print_str: TRUE if the string was printed, FALSE if no text section
\* could be placed in the area (the area is lower than a line)
Area_print_str(area) == FitsLine(area)

\* bullet_rendered after the bullet branch of render was taken
BulletRenderedIfPrinted(printed) == printed
BulletRenderedAfter(printed) == TRUE

\* BulletPoint::render: [b, result, child, printed]; the child's Err is returned
\* before the bullet branch; the value print_str returns is dropped
BulletPoint_render_marks_on_err(b, area) ==
    Eval(Element_render(b.element, AddOffsetX(area, indent)),
         LAMBDA r :
           [b |-> [element |-> r.elem, bullet_rendered |-> TRUE],
            result |-> IF r.res.err THEN ErrResult
                       ELSE [r.res EXCEPT !.size.width = @ + indent],
            child |-> r.res,
            printed |-> ~r.res.err /\ ~b.bullet_rendered /\ Area_print_str(area)])
BulletPoint_render(b, area) ==
    Eval(Element_render(b.element, AddOffsetX(area, indent)),
         LAMBDA r :
           IF r.res.err
           THEN [b |-> [b EXCEPT !.element = r.elem], result |-> ErrResult,
                 child |-> r.res, printed |-> FALSE]
           ELSE LET printed == ~b.bullet_rendered /\ Area_print_str(area)
                IN  [b |-> [element |-> r.elem,
                            bullet_rendered |->
                                IF ~b.bullet_rendered THEN BulletRenderedAfter(printed)
                                                      ELSE b.bullet_rendered],
                     result |-> [r.res EXCEPT !.size.width = @ + indent],
                     child |-> r.res,
                     printed |-> printed])

\* the elements a caller may put behind a bullet
BulletChildren == {ParagraphElem(n, 1) : n \in 1..MaxLines} \cup {OverlongElem, TextElem(1)}

\* the areas a parent leaves to a bullet point; height 0 is an area that is
\* lower than a line
BulletAreas ==
    {[width |-> indent + MaxAreaWidth, height |-> h] : h \in 0..MaxAreaHeight}

BInit ==
    /\ \E e \in BulletChildren :
          /\ b_element = BulletPoint_new(e).element
          /\ b_bullet_rendered = BulletPoint_new(e).bullet_rendered
    /\ b_result = DefaultResult
    /\ b_hist = <<>>
    /\ b_failed = FALSE

\* the bullet point of a specification that is about another element
BIdle ==
    /\ b_element = TextElem(1)
    /\ b_bullet_rendered = FALSE
    /\ b_result = DefaultResult
    /\ b_hist = <<>>
    /\ b_failed = FALSE

\* the parent calls BulletPoint::render with the area it has left
BRender(area) ==
    /\ root = "BulletPoint"
    /\ ~b_failed
    /\ Len(b_hist) <= MaxCalls + 1
    /\ \E out \in {BulletPoint_render([element |-> b_element,
                                       bullet_rendered |-> b_bullet_rendered], area)} :
           /\ b_element' = out.b.element
           /\ b_bullet_rendered' = out.b.bullet_rendered
           /\ b_result' = out.result
           /\ b_failed' = out.result.err
           /\ b_hist' = Append(b_hist,
                  [area |-> area, child |-> out.child, printed |-> out.printed,
                   result |-> out.result])
    /\ UNCHANGED except_b


\* --------------------------------------------------------------- Paragraph
\* A string is a sequence of characters; a character is "a", "b", " " or the
\* hyphen mark "-".  Every glyph of the model's font is one unit wide.

Space == " "
Mark == "-"

\* Style::str_width
StrWidth(str) == Len(str)

RECURSIVE Concat(_)
Concat(strs) == IF strs = <<>> THEN <<>> ELSE strs[1] \o Concat(Tail(strs))

RECURSIVE SumLen(_)
SumLen(strs) == IF strs = <<>> THEN 0 ELSE Len(strs[1]) + SumLen(Tail(strs))

\* str.find(' ').map(|i| i + 1).unwrap_or_else(|| str.len()), counted from 1
RECURSIVE WordEnd(_, _)
WordEnd(str, i) ==
    IF i >= Len(str) THEN Len(str)
    ELSE IF str[i] = Space THEN i
    ELSE WordEnd(str, i + 1)

\* wrap::Words over one string: the string is cut after each space; an empty
\* string gives one empty word
RECURSIVE WordsOf(_)
WordsOf(str) ==
    LET n == WordEnd(str, 1) IN
    IF n >= Len(str) THEN <<str>>
    ELSE <<SubSeq(str, 1, n)>> \o WordsOf(SubSeq(str, n + 1, Len(str)))

\* wrap::Words::new(text).collect()
RECURSIVE Words_new(_)
Words_new(text) ==
    IF text = <<>> THEN <<>> ELSE WordsOf(text[1]) \o Words_new(Tail(text))

\* number of the characters of a word before its space
Letters(word) == Cardinality({i \in 1..Len(word) : word[i] # Space})

\* wrap::split: with a hyphenator a word may be broken between two of its
\* letters; the longest start that fits the width together with the mark is
\* taken: [ok, start, end]
Split(word, width, hyphenator) ==
    LET k == IF hyphenator
             THEN Max(0, Min(width - StrWidth(<<Mark>>), Letters(word) - 1))
             ELSE 0
    IN  IF k > 0
        THEN [ok |-> TRUE, start |-> Append(SubSeq(word, 1, k), Mark),
              end |-> SubSeq(word, k + 1, Len(word))]
        ELSE [ok |-> FALSE, start |-> <<>>, end |-> word]

\* wrap::Wrapper: the lines [line, delta] the wrapper yields for the words from
\* word i on, and has_overflowed; delta is the number of characters the wrapper
\* added to the line (the mark of a split word)
RECURSIVE Wrapper(_, _, _, _, _, _, _)
Wrapper(words, i, x, buf, width, hyphenator, out) ==
    IF i > Len(words)
    THEN [lines |-> IF buf = <<>> THEN out ELSE Append(out, [line |-> buf, delta |-> 0]),
          has_overflowed |-> FALSE]
    ELSE IF x + StrWidth(words[i]) > width
    THEN LET sp == Split(words[i], width - x, hyphenator)
             delta == IF sp.ok THEN Len(sp.start) + Len(sp.end) - Len(words[i]) ELSE 0
             line == IF sp.ok THEN Append(buf, sp.start) ELSE buf
         IN  IF StrWidth(sp.end) > width
             THEN [lines |-> out, has_overflowed |-> TRUE]
             ELSE Wrapper(words, i + 1, StrWidth(sp.end), <<sp.end>>, width, hyphenator,
                          Append(out, [line |-> line, delta |-> delta]))
    ELSE Wrapper(words, i + 1, x + StrWidth(words[i]), Append(buf, words[i]), width,
                 hyphenator, out)


\* Alignment; "JustifiedTrimmed" is Justified(true), "Justified" is Justified(false)
Alignments == {"Left", "Center", "Right", "Justified", "JustifiedTrimmed"}

\* Paragraph::get_offset, in half units
get_offset_left(alignment, width, max_width) == 0
get_offset(alignment, width, max_width) ==
    CASE alignment \in {"Left", "Justified", "JustifiedTrimmed"} -> 0
      [] alignment = "Center" -> max_width - width
      [] alignment = "Right" -> 2 * (max_width - width)

\* rendered_len after a line was printed: the lengths of the printed strings
\* without the characters the wrapper added
RenderedLenWithDelta(rendered_len, line, delta) == rendered_len + SumLen(line)
RenderedLen(rendered_len, line, delta) == rendered_len + SumLen(line) - delta

\* the characters of the text that a printed line shows: the mark of a split
\* word is the last character of its line
LineText(line, delta) == SubSeq(Concat(line), 1, SumLen(line) - delta)

\* Style::font_size of the style the paragraph is rendered with
FontSize == 2

\* str::trim_start and str::trim_end
RECURSIVE TrimStart(_)
TrimStart(str) ==
    IF str # <<>> /\ Head(str) = Space THEN TrimStart(Tail(str)) ELSE str
RECURSIVE TrimEnd(_)
TrimEnd(str) ==
    IF str # <<>> /\ str[Len(str)] = Space THEN TrimEnd(SubSeq(str, 1, Len(str) - 1))
    ELSE str

\* next_wrap.is_some() for line j of the n lines the wrapper yields
HasNextLineAlways(j, n) == TRUE
HasNextLine(j, n) == j < n

\* the divisor of the leftover space of a line of n strings
SpacingDivisorWords(n) == Max(n, 1)
SpacingDivisorUnclamped(n) == n - 1
SpacingDivisor(n) == Max(n - 1, 1)

\* extra_word_spacing of a line, as the fraction num / den (zero is 0 / 1)
ExtraWordSpacing(alignment, line, width, max_width, has_next) ==
    IF alignment \in {"Justified", "JustifiedTrimmed"} /\ has_next
    THEN LET first_diff ==
                 IF line # <<>>
                 THEN StrWidth(line[1]) - StrWidth(TrimStart(line[1]))
                 ELSE 0
             last_diff ==
                 IF alignment = "JustifiedTrimmed" /\ line # <<>>
                 THEN StrWidth(line[Len(line)]) - StrWidth(TrimEnd(line[Len(line)]))
                 ELSE 0
             leftover_space == max_width - (width - first_diff - last_diff)
         IN  [num |-> leftover_space, den |-> SpacingDivisor(Len(line)) * FontSize]
    ELSE [num |-> 0, den |-> 1]

\* Area::text_section(font_cache, position, metrics) is Some: a line of the
\* metrics' height fits the area
FitsHeight(area, line_height) == area.height >= line_height

\* the line loop of Paragraph::render from line j on, for lines of the height
\* metrics.line_height: [size, rendered_len, printed, placed, has_more, broke_at]
RECURSIVE ParagraphLines(_, _, _, _, _, _, _)
ParagraphLines(lines, j, area, alignment, max_width, acc, line_height) ==
    IF j > Len(lines) THEN acc
    ELSE IF ~FitsHeight(area, line_height)
    THEN [acc EXCEPT !.has_more = TRUE, !.broke_at = j]
    ELSE LET width == StrWidth(Concat(lines[j].line)) IN
         ParagraphLines(lines, j + 1, AddOffsetY(area, line_height), alignment, max_width,
             [size |-> StackVertical(acc.size, [width |-> width, height |-> line_height]),
              rendered_len |-> RenderedLen(acc.rendered_len, lines[j].line, lines[j].delta),
              printed |-> acc.printed \o LineText(lines[j].line, lines[j].delta),
              placed |-> Append(acc.placed,
                  [x2 |-> get_offset(alignment, width, max_width), width |-> width,
                   delta |-> lines[j].delta, line |-> lines[j].line,
                   extra |-> ExtraWordSpacing(alignment, lines[j].line, width, max_width,
                                              HasNextLine(j, Len(lines)))]),
              has_more |-> FALSE,
              broke_at |-> 0],
             line_height)

\* the loop that removes the rendered data from the front of self.words
PruneWholeWords(words, rendered_len) ==
    IF rendered_len > 0 /\ words # <<>> THEN Tail(words) ELSE words
RECURSIVE Prune(_, _)
Prune(words, rendered_len) ==
    IF rendered_len > 0 /\ words # <<>>
    THEN IF Len(words[1]) <= rendered_len
         THEN Prune(Tail(words), rendered_len - Len(words[1]))
         ELSE <<SubSeq(words[1], rendered_len + 1, Len(words[1]))>> \o Tail(words)
    ELSE words

\* the front word is cut in place by the pruning loop
RECURSIVE PruneSplits(_, _)
PruneSplits(words, rendered_len) ==
    /\ rendered_len > 0 /\ words # <<>>
    /\ IF Len(words[1]) <= rendered_len
       THEN PruneSplits(Tail(words), rendered_len - Len(words[1]))
       ELSE TRUE

\* the result of a call in which the wrapper has overflowed
OverflowAsHasMore(size) == [size |-> size, has_more |-> TRUE, err |-> FALSE]
OverflowResult(size) == ErrResult

\* Paragraph::render: [p, result, printed, placed, rendered_len, split] for the
\* paragraph p = [text, words, alignment, line_height]
Paragraph_render(p, area, hyphenator) ==
    IF p.words = <<>> /\ p.text = <<>>
    THEN [p |-> p, result |-> DefaultResult, printed |-> <<>>, placed |-> <<>>,
          rendered_len |-> 0, split |-> FALSE]
    ELSE
    Eval(IF p.words = <<>> THEN Words_new(p.text) ELSE p.words,
         LAMBDA words :
    Eval(Wrapper(words, 1, 0, <<>>, area.width, hyphenator, <<>>),
         LAMBDA wrapper :
    Eval(ParagraphLines(wrapper.lines, 1, area, p.alignment, area.width,
            [size |-> ZeroSize, rendered_len |-> 0, printed |-> <<>>, placed |-> <<>>,
             has_more |-> FALSE, broke_at |-> 0], p.line_height),
         LAMBDA out :
           LET text == IF p.words = <<>> THEN <<>> ELSE p.text
               \* the wrapper was asked for the line after the one the loop is at
               has_overflowed ==
                   /\ wrapper.has_overflowed
                   /\ out.broke_at \in {0, Len(wrapper.lines)}
           IN  IF has_overflowed
               THEN [p |-> [p EXCEPT !.text = text, !.words = words],
                     result |-> OverflowResult(out.size), printed |-> out.printed,
                     placed |-> out.placed,
                     rendered_len |-> out.rendered_len, split |-> FALSE]
               ELSE [p |-> [p EXCEPT !.text = text,
                                     !.words = Prune(words, out.rendered_len)],
                     result |-> [size |-> out.size, has_more |-> out.has_more,
                                 err |-> FALSE],
                     printed |-> out.printed, placed |-> out.placed,
                     rendered_len |-> out.rendered_len,
                     split |-> PruneSplits(words, out.rendered_len)])))

\* the strings of at most n characters
RECURSIVE Strings(_)
Strings(n) ==
    IF n = 0 THEN {<<>>}
    ELSE LET shorter == Strings(n - 1) IN
         shorter \cup {Append(str, c) : str \in shorter, c \in {"a", "b", Space}}

\* the texts a paragraph is built from: one string (Paragraph::new), or two
\* (Paragraph::new and push)
Texts ==
    {<<str>> : str \in Strings(MaxTextLen)}
        \cup {<<SubSeq(str, 1, Len(str) \div 2), SubSeq(str, Len(str) \div 2 + 1, Len(str))>> :
                 str \in {t \in Strings(MaxTextLen) : Len(t) >= 2}}

\* the areas a paragraph is rendered into
ParagraphAreas ==
    {[width |-> w, height |-> h] : w \in 1..MaxAreaWidth, h \in 0..MaxAreaHeight}

PInit ==
    /\ p_text \in Texts
    /\ p_words = <<>>
    /\ p_alignment \in Alignments
    /\ p_hyphenator \in BOOLEAN
    /\ p_orig = Concat(p_text)
    /\ p_emitted = <<>>
    /\ p_result = DefaultResult
    /\ p_last = [area |-> ZeroSize, placed |-> <<>>, rendered_len |-> 0, split |-> FALSE]
    /\ p_resumed = FALSE
    /\ p_failed = FALSE
    /\ p_line_height = LineHeight

\* a paragraph that is left-aligned and set in a font whose lines are one or
\* two units high
PTallInit ==
    /\ p_text \in Texts
    /\ p_words = <<>>
    /\ p_alignment = "Left"
    /\ p_hyphenator \in BOOLEAN
    /\ p_orig = Concat(p_text)
    /\ p_emitted = <<>>
    /\ p_result = DefaultResult
    /\ p_last = [area |-> ZeroSize, placed |-> <<>>, rendered_len |-> 0, split |-> FALSE]
    /\ p_resumed = FALSE
    /\ p_failed = FALSE
    /\ p_line_height \in {LineHeight, 2 * LineHeight}

\* the paragraph of a specification that is about another element
PIdle ==
    /\ p_text = <<>>
    /\ p_words = <<>>
    /\ p_alignment = "Left"
    /\ p_hyphenator = FALSE
    /\ p_orig = <<>>
    /\ p_emitted = <<>>
    /\ p_result = DefaultResult
    /\ p_last = [area |-> ZeroSize, placed |-> <<>>, rendered_len |-> 0, split |-> FALSE]
    /\ p_resumed = FALSE
    /\ p_failed = FALSE
    /\ p_line_height = LineHeight

\* the parent calls Paragraph::render with the area it has left
PRender(area) ==
    /\ root = "Paragraph"
    /\ ~p_failed
    /\ \E out \in {Paragraph_render([text |-> p_text, words |-> p_words,
                                     alignment |-> p_alignment,
                                     line_height |-> p_line_height],
                                    area, p_hyphenator)} :
           /\ p_text' = out.p.text
           /\ p_words' = out.p.words
           /\ p_emitted' = p_emitted \o out.printed
           /\ p_result' = out.result
           /\ p_failed' = out.result.err
           /\ p_last' = [area |-> area, placed |-> out.placed,
                         rendered_len |-> out.rendered_len, split |-> out.split]
           /\ p_resumed' = (p_resumed \/ (p_result.has_more /\ p_last.split
                                            /\ out.printed # <<>>))
    /\ UNCHANGED <<p_alignment, p_hyphenator, p_orig, p_line_height, except_p>>


\* ----------------------------------------------------------- PaddedElement

\* PaddedElement::new
PaddedElement_new(e, padding) == [element |-> e, padding |-> padding]

\* the area the child is rendered into: Margins { bottom: 0, ..self.padding }
PdInnerAreaNoTop(area, padding) == AddMargins(area, 0, padding.right, 0, padding.left)
PdInnerArea(area, padding) == AddMargins(area, padding.top, padding.right, 0, padding.left)

\* the size render reports for the size the child reported
PdSizeNoBottom(size, padding) ==
    [width |-> size.width + padding.left + padding.right,
     height |-> size.height + padding.top]
PdSize(size, padding) ==
    [width |-> size.width + padding.left + padding.right,
     height |-> size.height + padding.top + padding.bottom]

\* PaddedElement::render: [pd, result, child_area, child]; the child's Err is
\* returned as it is
PaddedElement_render(pd, area) ==
    Eval(Element_render(pd.element, PdInnerArea(area, pd.padding)),
         LAMBDA r :
           [pd |-> [pd EXCEPT !.element = r.elem],
            result |-> IF r.res.err THEN ErrResult
                       ELSE [r.res EXCEPT !.size = PdSize(r.res.size, pd.padding)],
            child_area |-> PdInnerArea(area, pd.padding),
            child |-> r.res])

\* the paddings a caller may give
Paddings ==
    [top : 0..MaxPadding, right : 0..MaxPadding, bottom : 0..MaxPadding,
     left : 0..MaxPadding]

\* the elements a caller may pad
PaddedChildren == {ParagraphElem(n, 1) : n \in 1..MaxLines} \cup {OverlongElem, TextElem(1)}

\* the areas a padded element is rendered into
PaddedAreas ==
    {[width |-> MaxAreaWidth, height |-> h] : h \in 0..(MaxAreaHeight + MaxPadding)}

PdInit ==
    /\ \E e \in PaddedChildren, padding \in Paddings :
          /\ pd_element = PaddedElement_new(e, padding).element
          /\ pd_padding = PaddedElement_new(e, padding).padding
    /\ pd_hist = <<>>
    /\ pd_failed = FALSE

\* the padded element of a specification that is about another element
PdIdle ==
    /\ pd_element = TextElem(1)
    /\ pd_padding = [top |-> 0, right |-> 0, bottom |-> 0, left |-> 0]
    /\ pd_hist = <<>>
    /\ pd_failed = FALSE

\* the parent calls PaddedElement::render with the area it has left
PdRender(area) ==
    /\ root = "PaddedElement"
    /\ ~pd_failed
    /\ Len(pd_hist) < MaxCalls
    /\ \E out \in {PaddedElement_render([element |-> pd_element, padding |-> pd_padding],
                                        area)} :
           /\ pd_element' = out.pd.element
           /\ pd_failed' = out.result.err
           /\ pd_hist' = Append(pd_hist,
                  [area |-> area, child_area |-> out.child_area, child |-> out.child,
                   result |-> out.result])
    /\ UNCHANGED <<pd_padding, except_pd>>


\* ------------------------------------------------------------ StyledElement

\* style::Effect, and a Style as the set of the effects it has
Effects == {"Bold", "Italic"}

\* Style::merge: the effects of the other style are added
Style_merge(style, other) == style \cup other

\* StyledElement::new
StyledElement_new(e, style) == [element |-> e, style |-> style]

\* StyledElement::render: [s, result, child_style, child], the result of the
\* wrapped element's render call is returned as it is
StyledElement_render_swallow(s, area, style) ==
    Eval(Element_render(s.element, area),
         LAMBDA r :
           [s |-> [s EXCEPT !.element = r.elem],
            result |-> IF r.res.err THEN DefaultResult ELSE r.res,
            child_style |-> Style_merge(style, s.style),
            child |-> r.res])
StyledElement_render(s, area, style) ==
    Eval(Element_render(s.element, area),
         LAMBDA r :
           [s |-> [s EXCEPT !.element = r.elem],
            result |-> r.res,
            child_style |-> Style_merge(style, s.style),
            child |-> r.res])

\* the elements a caller may style
StyledChildren == {ParagraphElem(n, 1) : n \in 1..MaxLines} \cup {OverlongElem, TextElem(1)}

SInit ==
    /\ \E e \in StyledChildren, style \in SUBSET Effects :
          /\ s_element = StyledElement_new(e, style).element
          /\ s_style = StyledElement_new(e, style).style
    /\ s_hist = <<>>
    /\ s_failed = FALSE

\* the styled element of a specification that is about another element
SIdle ==
    /\ s_element = TextElem(1)
    /\ s_style = {}
    /\ s_hist = <<>>
    /\ s_failed = FALSE

\* the parent calls StyledElement::render with an area and its style
SRender(area, style) ==
    /\ root = "StyledElement"
    /\ ~s_failed
    /\ Len(s_hist) < MaxCalls
    /\ \E out \in {StyledElement_render([element |-> s_element, style |-> s_style],
                                        area, style)} :
           /\ s_element' = out.s.element
           /\ s_failed' = out.result.err
           /\ s_hist' = Append(s_hist,
                  [area |-> area, style |-> style, child_style |-> out.child_style,
                   child |-> out.child, result |-> out.result])
    /\ UNCHANGED <<s_style, except_s>>


\* ------------------------------------------- UnorderedList and OrderedList

\* the bullet of BulletPoint::new: the one character U+2013 (en dash)
DefaultBullet == <<"U+2013">>

\* BulletPoint::set_bullet
set_bullet(point, bullet) == [point EXCEPT !.bullet = bullet]

\* a bullet point with its bullet, as the lists build it
BulletPoint_with(e) == BulletPoint_new(e) @@ [bullet |-> DefaultBullet]

DigitChars == <<"0", "1", "2", "3", "4", "5", "6", "7", "8", "9">>

\* format!("{}", number)
RECURSIVE Decimal(_)
Decimal(number) ==
    IF number < 10 THEN <<DigitChars[number + 1]>>
    ELSE Append(Decimal(number \div 10), DigitChars[(number % 10) + 1])

\* format!("{}.", number)
FormatLabel(number) == Append(Decimal(number), ".")

NoBullet == [present |-> FALSE, s |-> <<>>]
SomeBullet(str) == [present |-> TRUE, s |-> str]

\* UnorderedList::push: the layout afterwards
UnorderedList_push(layout, bullet, e) ==
    Append(layout,
           IF bullet.present THEN set_bullet(BulletPoint_with(e), bullet.s)
                             ELSE BulletPoint_with(e))

\* UnorderedList::push_no_bullet
UnorderedList_push_no_bullet(layout, e) ==
    Append(layout, set_bullet(BulletPoint_with(e), <<>>))

\* self.number += 1
NumberKept(number) == number
NumberAfterPush(number) == number + 1

\* OrderedList::push: [layout, number]
OrderedList_push(layout, number, e) ==
    [layout |-> Append(layout, set_bullet(BulletPoint_with(e), FormatLabel(number))),
     number |-> NumberAfterPush(number)]

\* self.layout.render: LinearLayout::render_vertical over the bullet points of
\* the list: [layout, render_idx, result]
RECURSIVE ListLoop(_, _, _, _)
ListLoop(layout, idx, area, acc) ==
    IF LLContinue(area, idx, Len(layout))
    THEN LET point == layout[idx + 1]
             r == BulletPoint_render([element |-> point.element,
                                      bullet_rendered |-> point.bullet_rendered], area)
             points == [layout EXCEPT ![idx + 1] =
                          [point EXCEPT !.element = r.b.element,
                                        !.bullet_rendered = r.b.bullet_rendered]]
         IN  IF r.result.err
             THEN [layout |-> points, render_idx |-> idx, result |-> ErrResult]
             ELSE LET size == LLAccumulate(acc, r.result.size) IN
                  IF r.result.has_more
                  THEN [layout |-> points, render_idx |-> idx,
                        result |-> [size |-> size, has_more |-> TRUE, err |-> FALSE]]
                  ELSE ListLoop(points, LLAdvance(idx), LLNextArea(area, r.result.size),
                                size)
    ELSE [layout |-> layout, render_idx |-> idx,
          result |-> [size |-> acc, has_more |-> LLFinalHasMore(idx, Len(layout)),
                      err |-> FALSE]]

\* UnorderedList::render and OrderedList::render
List_render(layout, idx, area) == ListLoop(layout, idx, area, ZeroSize)

\* the numbers an ordered list starts with: OrderedList::new is with_start(1)
Starts == {0, 1, 9}

\* the bullets an unordered list is created with: UnorderedList::new has none
ListBullets == {NoBullet, SomeBullet(<<"*">>)}

\* the elements a caller pushes to a list
ListChildren == {ParagraphElem(MaxLines, 1), TextElem(1)}

LInit ==
    /\ l_layout = <<>>
    /\ l_render_idx = 0
    /\ \/ root = "OrderedList" /\ l_number \in Starts /\ l_bullet = NoBullet
       \/ root = "UnorderedList" /\ l_number = 0 /\ l_bullet \in ListBullets
    /\ l_start = l_number
    /\ l_pushes = <<>>
    /\ l_calls = 0
    /\ l_failed = FALSE

\* the lists of a specification that is about another element
LIdle ==
    /\ l_layout = <<>>
    /\ l_render_idx = 0
    /\ l_number = 0
    /\ l_bullet = NoBullet
    /\ l_start = 0
    /\ l_pushes = <<>>
    /\ l_calls = 0
    /\ l_failed = FALSE

\* a caller pushes an element to the ordered list
OLPush(e) ==
    /\ root = "OrderedList"
    /\ ~l_failed
    /\ Len(l_layout) < MaxChildren
    /\ LET out == OrderedList_push(l_layout, l_number, e) IN
         /\ l_layout' = out.layout
         /\ l_number' = out.number
    /\ l_pushes' = Append(l_pushes, "push")
    /\ UNCHANGED <<l_render_idx, l_bullet, l_start, l_calls, l_failed, except_l>>

\* a caller pushes an element to the unordered list
ULPush(e) ==
    /\ root = "UnorderedList"
    /\ ~l_failed
    /\ Len(l_layout) < MaxChildren
    /\ l_layout' = UnorderedList_push(l_layout, l_bullet, e)
    /\ l_pushes' = Append(l_pushes, "push")
    /\ UNCHANGED <<l_render_idx, l_number, l_bullet, l_start, l_calls, l_failed,
                   except_l>>

ULPushNoBullet(e) ==
    /\ root = "UnorderedList"
    /\ ~l_failed
    /\ Len(l_layout) < MaxChildren
    /\ l_layout' = UnorderedList_push_no_bullet(l_layout, e)
    /\ l_pushes' = Append(l_pushes, "push_no_bullet")
    /\ UNCHANGED <<l_render_idx, l_number, l_bullet, l_start, l_calls, l_failed,
                   except_l>>

\* the driver calls the list's render with a fresh area
LRender(area) ==
    /\ root \in {"OrderedList", "UnorderedList"}
    /\ ~l_failed
    /\ l_calls < MaxCalls
    /\ \E out \in {List_render(l_layout, l_render_idx, area)} :
           /\ l_layout' = out.layout
           /\ l_render_idx' = out.render_idx
           /\ l_failed' = out.result.err
    /\ l_calls' = l_calls + 1
    /\ UNCHANGED <<l_number, l_bullet, l_start, l_pushes, except_l>>


\* -------------------------------------------------------------------- Break

\* Break::new(lines)
Break_new(lines) == [lines |-> lines]

\* Break::render: [br, result]; lines are counted in line heights of the style
Break_render(br, area) ==
    IF br.lines <= 0 THEN [br |-> br, result |-> DefaultResult]
    ELSE LET line_height == LineHeight
             break_height == line_height * br.lines
         IN  IF break_height < area.height
             THEN [br |-> [br EXCEPT !.lines = 0],
                   result |-> [DefaultResult EXCEPT !.size.height = break_height]]
             ELSE [br |-> [br EXCEPT !.lines = @ - (area.height \div line_height)],
                   result |-> [DefaultResult EXCEPT !.size.height = area.height]]

BrInit ==
    /\ br_lines \in {Break_new(n).lines : n \in 0..MaxLines}
    /\ br_n = br_lines
    /\ br_hist = <<>>

\* the break of a specification that is about another element
BrIdle ==
    /\ br_lines = 0
    /\ br_n = 0
    /\ br_hist = <<>>

\* the parent calls Break::render with the area it has left
BrRender(area) ==
    /\ root = "Break"
    /\ Len(br_hist) <= MaxCalls + 1
    /\ \E out \in {Break_render([lines |-> br_lines], area)} :
           /\ br_lines' = out.br.lines
           /\ br_hist' = Append(br_hist,
                  [area |-> area, lines_before |-> br_lines, result |-> out.result])
    /\ UNCHANGED <<br_n, except_br>>


\* ------------------------------ CodeBlock (src/src/elements/codeblock.rs)
\* The code is a sequence of characters, "a" or the line terminator "\n".

Newline == "\n"

\* CodeBlock.base_style, and Style::default()
BaseStyle == [name |-> "base", color |-> "none"]
DefaultStyle == [name |-> "default", color |-> "none"]

\* the languages of the syntax set and the themes of the theme set
KnownLanguages == {"rs"}
KnownThemes == {"dark"}

NoTheme == [present |-> FALSE, name |-> ""]
SomeTheme(name) == [present |-> TRUE, name |-> name]

\* the index of the first line terminator of a string, 0 if it has none
RECURSIVE FindNewline(_, _)
FindNewline(str, i) ==
    IF i > Len(str) THEN 0
    ELSE IF str[i] = Newline THEN i
    ELSE FindNewline(str, i + 1)

\* LinesWithEndings::from(code): the lines with their terminators
RECURSIVE LinesWithEndings(_)
LinesWithEndings(str) ==
    IF str = <<>> THEN <<>>
    ELSE LET n == FindNewline(str, 1) IN
         IF n = 0 THEN <<str>>
         ELSE <<SubSeq(str, 1, n)>> \o LinesWithEndings(SubSeq(str, n + 1, Len(str)))

\* str::trim_end_matches('\n')
RECURSIVE TrimNewlines(_)
TrimNewlines(str) ==
    IF str # <<>> /\ str[Len(str)] = Newline
    THEN TrimNewlines(SubSeq(str, 1, Len(str) - 1))
    ELSE str

\* str::lines(): the lines without their terminators
StrLines(str) ==
    LET lines == LinesWithEndings(str) IN
      [i \in 1..Len(lines) |->
          IF lines[i][Len(lines[i])] = Newline
          THEN SubSeq(lines[i], 1, Len(lines[i]) - 1)
          ELSE lines[i]]

\* StyledStr::new(s, style)
StyledStr(str, style) == [s |-> str, style |-> style]

\* CodeBlock::dummy_highlighting
dummy_highlighting_default_style(code, style) ==
    [i \in 1..Len(StrLines(code)) |-> <<StyledStr(StrLines(code)[i], DefaultStyle)>>]
dummy_highlighting(code, style) ==
    [i \in 1..Len(StrLines(code)) |-> <<StyledStr(StrLines(code)[i], style)>>]

\* HighlightLines::highlight_line: the spans of a line, each with the base
\* style in the colour of the theme; the terminator is a span of its own
highlight_line(line, base_style) ==
    LET style == [base_style EXCEPT !.color = "theme"] IN
      IF Len(line) > 1 /\ line[Len(line)] = Newline
      THEN <<StyledStr(SubSeq(line, 1, Len(line) - 1), style),
             StyledStr(<<Newline>>, style)>>
      ELSE <<StyledStr(line, style)>>

\* SyntaxHighlighter::highlight: [some, lines]; None when the language or the
\* theme is not found
highlight(code, language, theme, base_style) ==
    IF language \notin KnownLanguages \/ theme \notin KnownThemes
    THEN [some |-> FALSE, lines |-> <<>>]
    ELSE [some |-> TRUE,
          lines |-> [i \in 1..Len(LinesWithEndings(code)) |->
                        highlight_line(LinesWithEndings(code)[i], base_style)]]

\* the lines CodeBlock::render works on
HighlightedLines(cb) ==
    IF cb.theme.present
    THEN LET h == highlight(cb.code, cb.language, cb.theme.name, BaseStyle) IN
         IF h.some THEN h.lines ELSE dummy_highlighting(cb.code, BaseStyle)
    ELSE dummy_highlighting(cb.code, BaseStyle)

\* s.s.chars().count() over the spans of a line
RECURSIVE SpanChars(_)
SpanChars(line) ==
    IF line = <<>> THEN 0 ELSE Len(line[1].s) + SpanChars(Tail(line))

\* the line loop of CodeBlock::render from line j on:
\* [size, rendered_chars, printed, has_more]
RECURSIVE CodeLines(_, _, _, _)
CodeLines(lines, j, area, acc) ==
    IF j > Len(lines) THEN acc
    ELSE IF ~FitsLine(area) THEN [acc EXCEPT !.has_more = TRUE]
    ELSE LET width == SpanChars([i \in 1..Len(lines[j]) |->
                                    [lines[j][i] EXCEPT !.s = TrimNewlines(@)]])
         IN  CodeLines(lines, j + 1, AddOffsetY(area, LineHeight),
                 [size |-> StackVertical(acc.size, [width |-> width, height |-> LineHeight]),
                  rendered_chars |-> acc.rendered_chars + SpanChars(lines[j]),
                  printed |-> Append(acc.printed,
                      [i \in 1..Len(lines[j]) |->
                          [lines[j][i] EXCEPT !.s = TrimNewlines(@)]]),
                  has_more |-> FALSE])

\* CodeBlock::render: [cb, result, printed]
CodeBlock_render(cb, area) ==
    IF cb.code = <<>> THEN [cb |-> cb, result |-> DefaultResult, printed |-> <<>>]
    ELSE Eval(CodeLines(HighlightedLines(cb), 1, area,
                        [size |-> ZeroSize, rendered_chars |-> 0, printed |-> <<>>,
                         has_more |-> FALSE]),
              LAMBDA out :
                [cb |-> [cb EXCEPT !.code = SubSeq(@, out.rendered_chars + 1, Len(@))],
                 result |-> [size |-> out.size, has_more |-> out.has_more, err |-> FALSE],
                 printed |-> out.printed])

\* the codes of at most n characters
RECURSIVE Codes(_)
Codes(n) ==
    IF n = 0 THEN {<<>>}
    ELSE LET shorter == Codes(n - 1) IN
         shorter \cup {Append(str, c) : str \in shorter, c \in {"a", Newline}}

\* CodeBlock::new(code, language, theme, base_style)
CbInit ==
    /\ cb_code \in Codes(MaxTextLen)
    /\ cb_language \in {"rs", "xx"}
    /\ cb_theme \in {NoTheme, SomeTheme("dark"), SomeTheme("zz")}
    /\ cb_orig = cb_code
    /\ cb_hist = <<>>

\* the code block of a specification that is about another element
CbIdle ==
    /\ cb_code = <<>>
    /\ cb_language = ""
    /\ cb_theme = NoTheme
    /\ cb_orig = <<>>
    /\ cb_hist = <<>>

\* the parent calls CodeBlock::render with the area it has left
CbRender(area) ==
    /\ root = "CodeBlock"
    /\ Len(cb_hist) < MaxCalls
    /\ \E out \in {CodeBlock_render([code |-> cb_code, language |-> cb_language,
                                     theme |-> cb_theme], area)} :
           /\ cb_code' = out.cb.code
           /\ cb_hist' = Append(cb_hist,
                  [area |-> area, code_before |-> cb_code, printed |-> out.printed,
                   result |-> out.result])
    /\ UNCHANGED <<cb_language, cb_theme, cb_orig, except_cb>>


\* --------------------------------------------------- MathBlock (src/src/math.rs)
\* Vertical lengths are counted in steps of 0.005 mm, horizontal lengths in
\* half pixels, EM lengths in halves of an EM.  Font sizes are 1 and 2.

\* POSITIONING_ACCURACY = 0.01 mm
POSITIONING_ACCURACY == 2

\* PX_TO_MM, in the horizontal unit
PX_TO_MM == 2

\* number of EM units in one EM
EmUnits == 2

\* f64::EPSILON: positive, and below every positive difference of the model
EPSILON == 1

Abs(a) == IF a < 0 THEN -a ELSE a

\* mm_to_em: pixels = mm / PX_TO_MM; pixels * (1.0 / font_size)
mm_to_em(mm, font_size) == ((mm \div PX_TO_MM) * EmUnits) \div font_size

Black == "black"
Colors == {Black, "red"}

\* TextSection::can_append
can_append(section, y_origin, font_size, color) ==
    /\ Abs(section.y_origin - y_origin) < POSITIONING_ACCURACY
    /\ (section.font_size - font_size) < EPSILON
    /\ section.color = color

\* the ops that find_matching_text_section may return for a glyph
MatchingSections(math_ops, y, font_size, color) ==
    {i \in 1..Len(math_ops) :
        /\ math_ops[i].kind = "TextSection"
        /\ can_append(math_ops[i], y, font_size, color)}

SetMin(S) == CHOOSE i \in S : \A j \in S : i <= j
SetMax(S) == CHOOSE i \in S : \A j \in S : i >= j

\* MathBlock::find_matching_text_section: the first op that is a text section
\* the glyph can be appended to, 0 for None
find_matching_text_section_last(math_ops, y, font_size, color) ==
    LET S == MatchingSections(math_ops, y, font_size, color)
    IN  IF S = {} THEN 0 ELSE SetMax(S)
find_matching_text_section(math_ops, y, font_size, color) ==
    LET S == MatchingSections(math_ops, y, font_size, color)
    IN  IF S = {} THEN 0 ELSE SetMin(S)

\* section.last_x after a glyph at x_pos
LastXNoAdvance(x_pos, advance) == x_pos
LastX(x_pos, advance) == x_pos + advance

\* MathBlock::push_glyph; n is the number of the event (history only)
push_glyph(math_ops, x, y, glyph_id, font_size, color, advance, n) ==
    LET i == find_matching_text_section(math_ops, y, font_size, color)
        x_pos == mm_to_em(x, font_size)
    IN  IF i > 0
        THEN [math_ops EXCEPT ![i] =
                 [@ EXCEPT !.x_offsets = Append(@, x_pos - math_ops[i].last_x),
                           !.glyph_ids = Append(@, glyph_id),
                           !.last_x = LastX(x_pos, advance),
                           !.src = Append(@, n)]]
        ELSE Append(math_ops,
                 [kind |-> "TextSection", y_origin |-> y, font_size |-> font_size,
                  x_offsets |-> <<mm_to_em(x, font_size)>>, glyph_ids |-> <<glyph_id>>,
                  last_x |-> LastX(mm_to_em(x, font_size), advance), color |-> color,
                  src |-> <<n>>])

\* the advance of a glyph in EM units (ctx.glyph_metrics(gid).advance * font_scale_x)
GlyphAdvance(gid) == gid

\* Backend::symbol, for a cursor at pos_x pixels whose corrected height is y
MathBlock_symbol(math_ops, current_color, pos_x, y, gid, font_size, n) ==
    push_glyph(math_ops, pos_x * PX_TO_MM, y, gid, font_size, current_color,
               GlyphAdvance(gid), n)

\* Backend::rule
MathBlock_rule(math_ops, current_color, pos_x, pos_y, width, height, n) ==
    Append(math_ops,
           [kind |-> "Rule", x |-> pos_x * PX_TO_MM, y |-> pos_y * PX_TO_MM,
            height |-> height * PX_TO_MM, width |-> width * PX_TO_MM,
            color |-> current_color, src |-> <<n>>])

\* Backend::begin_color
MathBlock_begin_color(current_color, color) == color

\* Backend::end_color
MathBlock_end_color_kept(current_color) == current_color
MathBlock_end_color(current_color) == Black

\* MathBlock::new
MInit ==
    /\ m_math_ops = <<>>
    /\ m_current_color = Black
    /\ m_events = <<>>
    /\ m_toggle = [kind |-> "none", color |-> Black]
    /\ m_nested = 0

\* the math block of a specification that is about another element
MIdle == MInit

\* the colour the events are to be stamped with: that of the last toggle
ToggledColor == IF m_toggle.kind = "begin" THEN m_toggle.color ELSE Black

\* ReX calls symbol
MSymbol(pos_x, y, gid, font_size) ==
    /\ root = "MathBlock"
    /\ Len(m_events) < MaxEvents
    /\ m_math_ops' = MathBlock_symbol(m_math_ops, m_current_color, pos_x, y, gid,
                                      font_size, Len(m_events) + 1)
    /\ m_events' = Append(m_events,
           [kind |-> "glyph", x |-> pos_x * PX_TO_MM, y |-> y, glyph_id |-> gid,
            font_size |-> font_size, advance |-> GlyphAdvance(gid),
            color |-> ToggledColor, after_nested_end |-> m_nested = 2])
    /\ UNCHANGED <<m_current_color, m_toggle, m_nested, except_m>>

\* ReX calls rule
MRule(pos_x, pos_y, width, height) ==
    /\ root = "MathBlock"
    /\ Len(m_events) < MaxEvents
    /\ m_math_ops' = MathBlock_rule(m_math_ops, m_current_color, pos_x, pos_y, width,
                                    height, Len(m_events) + 1)
    /\ m_events' = Append(m_events,
           [kind |-> "rule", x |-> pos_x * PX_TO_MM, y |-> pos_y * PX_TO_MM,
            glyph_id |-> 0, font_size |-> 0, advance |-> 0,
            color |-> ToggledColor, after_nested_end |-> m_nested = 2])
    /\ UNCHANGED <<m_current_color, m_toggle, m_nested, except_m>>

\* ReX calls begin_color
MBeginColor(color) ==
    /\ root = "MathBlock"
    /\ m_current_color' = MathBlock_begin_color(m_current_color, color)
    /\ m_toggle' = [kind |-> "begin", color |-> color]
    /\ m_nested' = IF m_toggle.kind = "begin" THEN 1 ELSE 0
    /\ UNCHANGED <<m_math_ops, m_events, except_m>>

\* ReX calls end_color
MEndColor ==
    /\ root = "MathBlock"
    /\ m_current_color' = MathBlock_end_color(m_current_color)
    /\ m_toggle' = [kind |-> "end", color |-> Black]
    /\ m_nested' = IF m_nested = 1 THEN 2 ELSE 0
    /\ UNCHANGED <<m_math_ops, m_events, except_m>>

\* the inputs of the events
YOrigins == {0, 2, 3}
FontSizes == {1, 2}
GlyphIds == {1, 2}
CursorXs == {0, 1, 3}


\* ---------------------------------------------------------- specifications

\* the elements of a specification that is about another element
CoreIdle == LLIdle /\ TIdle /\ FIdle /\ BIdle /\ PIdle
RestIdle(r) ==
    /\ r # "PaddedElement" => PdIdle
    /\ r # "MathBlock" => MIdle
    /\ r # "StyledElement" => SIdle
    /\ r \notin {"OrderedList", "UnorderedList"} => LIdle
    /\ r # "Break" => BrIdle
    /\ r # "CodeBlock" => CbIdle


LayoutInit == root = "LinearLayout" /\ tracing = TRUE /\ LLInit /\ TIdle /\ FIdle /\ BIdle /\ PIdle /\ RestIdle(root)

LayoutNext ==
    \/ \E e \in Children : LLPush(e)
    \/ \E a \in Areas : LLRender(a)

SpecLayout == LayoutInit /\ [][LayoutNext]_vars

TableInit == root = "TableLayout" /\ tracing = TRUE /\ TInit /\ LLIdle /\ FIdle /\ BIdle /\ PIdle /\ RestIdle(root)

FrameInit ==
    /\ root = "FramedElement" /\ tracing = TRUE
    /\ FInit /\ LLIdle /\ TIdle /\ BIdle /\ PIdle /\ RestIdle(root)

FrameNext == \E a \in FrameAreas : FRender(a)

SpecFrame == FrameInit /\ [][FrameNext]_vars

BulletInit ==
    /\ root = "BulletPoint" /\ tracing = TRUE
    /\ BInit /\ LLIdle /\ TIdle /\ FIdle /\ PIdle /\ RestIdle(root)

BulletNext == \E a \in BulletAreas : BRender(a)

SpecBullet == BulletInit /\ [][BulletNext]_vars

ParagraphInit ==
    /\ root = "Paragraph" /\ tracing = TRUE
    /\ PInit /\ LLIdle /\ TIdle /\ FIdle /\ BIdle /\ RestIdle(root)

ParagraphNext == \E a \in ParagraphAreas : PRender(a)

SpecParagraph == ParagraphInit /\ [][ParagraphNext]_vars

PaddedInit ==
    /\ root = "PaddedElement" /\ tracing = TRUE
    /\ PdInit /\ CoreIdle /\ RestIdle(root)

PaddedNext == \E a \in PaddedAreas : PdRender(a)

SpecPadded == PaddedInit /\ [][PaddedNext]_vars

MathInit ==
    /\ root = "MathBlock" /\ tracing = TRUE
    /\ MInit /\ CoreIdle /\ RestIdle(root)

\* glyphs of one kind at one place at every height and size, rules and colours
MathNext ==
    \/ \E y \in YOrigins, font_size \in FontSizes : MSymbol(0, y, 1, font_size)
    \/ MRule(0, 0, 1, 1)
    \/ \E color \in Colors \ {Black} : MBeginColor(color)
    \/ MEndColor

SpecMath == MathInit /\ [][MathNext]_vars

\* glyphs of every kind at every place on one line, in black
MathOffsetsNext ==
    \E pos_x \in CursorXs, gid \in GlyphIds, font_size \in FontSizes :
        MSymbol(pos_x, 0, gid, font_size)

SpecMathOffsets == MathInit /\ [][MathOffsetsNext]_vars

TableNext ==
    \/ \E cells \in RowInputs(Len(t_column_weights)) : TPushRow(cells)
    \/ \E a \in TableAreas : TRender(a)

SpecTable == TableInit /\ [][TableNext]_vars

\* tables with every choice of weights for up to MaxColumns columns; the unit of
\* width is the one in which the width of a weight of one is a whole number
WeightVectors == UNION {[1..n -> 1..MaxWeight] : n \in 1..MaxColumns}

SplitAreas(weights) ==
    {[width |-> k * SumSeq(weights), height |-> h] :
        k \in {1, MaxAreaWidth}, h \in {0, LineHeight + 2 * LineThickness}}

SplitInit ==
    /\ root = "TableLayout" /\ tracing = TRUE
    /\ t_column_weights \in WeightVectors
    /\ t_decorator \in Decorators
    /\ t_rows = <<>>
    /\ t_render_idx = 0
    /\ t_result = DefaultResult
    /\ t_hist = <<>>
    /\ t_calls = <<>>
    /\ t_pushes = <<>>
    /\ t_failed = FALSE
    /\ LLIdle /\ FIdle /\ BIdle /\ PIdle /\ RestIdle(root)

SplitNext ==
    \/ \E cells \in FramedRows(Len(t_column_weights)) : t_rows = <<>> /\ TPushRow(cells)
    \/ \E a \in SplitAreas(t_column_weights) : TRender(a)

SpecSplit == SplitInit /\ [][SplitNext]_vars

\* a table with a FrameCellDecorator under every setting of its flags
DecorInit ==
    /\ root = "TableLayout" /\ tracing = TRUE
    /\ t_column_weights \in FramedColumnWeights
    /\ t_decorator \in FrameDecorators
    /\ t_rows = <<>>
    /\ t_render_idx = 0
    /\ t_result = DefaultResult
    /\ t_hist = <<>>
    /\ t_calls = <<>>
    /\ t_pushes = <<>>
    /\ t_failed = FALSE
    /\ LLIdle /\ FIdle /\ BIdle /\ PIdle /\ RestIdle(root)

DecorNext ==
    \/ \E cells \in FramedRows(Len(t_column_weights)) : TPushRow(cells)
    \/ \E a \in FramedTableAreas : TRender(a)

SpecDecor == DecorInit /\ [][DecorNext]_vars

\* a table of two columns one of whose cells may return Err
ErrRows ==
    {<<OverlongElem, TextElem(1)>>, <<TextElem(1), OverlongElem>>,
     <<TextElem(1), TextElem(1)>>, <<ParagraphElem(MaxLines, 1), TextElem(1)>>}

\* each of the wrappers with children that may return Err
ErrInit ==
    /\ tracing = TRUE
    /\ \/ root = "LinearLayout" /\ LLInit /\ TIdle /\ FIdle /\ BIdle /\ PdIdle /\ SIdle
       \/ /\ root = "TableLayout" /\ LLIdle /\ FIdle /\ BIdle /\ PdIdle /\ SIdle
          /\ t_column_weights \in FramedColumnWeights
          /\ t_decorator \in Decorators
          /\ t_rows = <<>>
          /\ t_render_idx = 0
          /\ t_result = DefaultResult
          /\ t_hist = <<>>
          /\ t_calls = <<>>
          /\ t_pushes = <<>>
          /\ t_failed = FALSE
       \/ root = "FramedElement" /\ FInit /\ LLIdle /\ TIdle /\ BIdle /\ PdIdle /\ SIdle
       \/ root = "BulletPoint" /\ BInit /\ LLIdle /\ TIdle /\ FIdle /\ PdIdle /\ SIdle
       \/ root = "PaddedElement" /\ PdInit /\ LLIdle /\ TIdle /\ FIdle /\ BIdle /\ SIdle
       \/ root = "StyledElement" /\ SInit /\ LLIdle /\ TIdle /\ FIdle /\ BIdle /\ PdIdle
    /\ PIdle /\ MIdle /\ LIdle /\ BrIdle /\ CbIdle

ErrNext ==
    \/ \E e \in Children : LLPush(e)
    \/ \E a \in Areas : LLRender(a)
    \/ \E cells \in ErrRows : TPushRow(cells)
    \/ \E a \in FramedTableAreas : TRender(a)
    \/ \E a \in FrameAreas : FRender(a)
    \/ \E a \in BulletAreas : BRender(a)
    \/ \E a \in PaddedAreas : PdRender(a)
    \/ \E a \in Areas, style \in SUBSET {"Italic"} : SRender(a, style)

SpecErrors == ErrInit /\ [][ErrNext]_vars

\* the wrappers with resumption state, around children that return Err in
\* their first call or in a later one
LateChildren == {TextElem(1), ParagraphElem(1, 1), OverlongElem, LateOverlongElem}

LateRows ==
    {<<LateOverlongElem, TextElem(1)>>, <<TextElem(1), LateOverlongElem>>,
     <<TextElem(1), TextElem(1)>>, <<OverlongElem, TextElem(1)>>}

LateInit ==
    /\ tracing = TRUE
    /\ \/ root = "LinearLayout" /\ LLInit /\ TIdle /\ FIdle /\ BIdle
       \/ /\ root = "TableLayout" /\ LLIdle /\ FIdle /\ BIdle
          /\ t_column_weights \in FramedColumnWeights
          /\ t_decorator \in Decorators
          /\ t_rows = <<>>
          /\ t_render_idx = 0
          /\ t_result = DefaultResult
          /\ t_hist = <<>>
          /\ t_calls = <<>>
          /\ t_pushes = <<>>
          /\ t_failed = FALSE
       \/ /\ root = "FramedElement" /\ LLIdle /\ TIdle /\ BIdle
          /\ \E e \in LateChildren :
                /\ f_element = FramedElement_new(e).element
                /\ f_is_first = FramedElement_new(e).is_first
          /\ f_result = DefaultResult
          /\ f_hist = <<>>
          /\ f_failed = FALSE
       \/ /\ root = "BulletPoint" /\ LLIdle /\ TIdle /\ FIdle
          /\ \E e \in LateChildren :
                /\ b_element = BulletPoint_new(e).element
                /\ b_bullet_rendered = BulletPoint_new(e).bullet_rendered
          /\ b_result = DefaultResult
          /\ b_hist = <<>>
          /\ b_failed = FALSE
    /\ PIdle /\ PdIdle /\ SIdle /\ MIdle /\ LIdle /\ BrIdle /\ CbIdle

LateNext ==
    \/ \E e \in LateChildren : LLPush(e)
    \/ \E a \in Areas : LLRender(a)
    \/ \E cells \in LateRows : TPushRow(cells)
    \/ \E a \in TableAreas : TRender(a)
    \/ \E a \in FrameAreas : FRender(a)
    \/ \E a \in BulletAreas : BRender(a)

SpecLateErrors == LateInit /\ [][LateNext]_vars

\* a layout, or a table without decorator, with pushes and render calls in any
\* order
CursorInit ==
    /\ tracing = TRUE
    /\ \/ root = "LinearLayout" /\ LLInit /\ TIdle
       \/ /\ root = "TableLayout" /\ LLIdle
          /\ t_column_weights \in ColumnWeights
          /\ t_decorator = NoDecorator
          /\ t_rows = <<>>
          /\ t_render_idx = 0
          /\ t_result = DefaultResult
          /\ t_hist = <<>>
          /\ t_calls = <<>>
          /\ t_pushes = <<>>
          /\ t_failed = FALSE
    /\ FIdle /\ BIdle /\ PIdle /\ PdIdle /\ SIdle /\ MIdle /\ LIdle /\ BrIdle /\ CbIdle

CursorNext ==
    \/ \E e \in Children : LLPush(e)
    \/ \E a \in Areas : LLRender(a)
    \/ \E cells \in RowInputs(Len(t_column_weights)) : TPushRow(cells)
    \/ \E a \in TableAreas : TRender(a)

SpecCursors == CursorInit /\ [][CursorNext]_vars

BreakInit == root = "Break" /\ tracing = TRUE /\ BrInit /\ CoreIdle /\ RestIdle(root)

BreakNext == \E a \in Areas : BrRender(a)

SpecBreak == BreakInit /\ [][BreakNext]_vars

CodeInit == root = "CodeBlock" /\ tracing = TRUE /\ CbInit /\ CoreIdle /\ RestIdle(root)

CodeNext == \E a \in Areas : CbRender(a)

SpecCode == CodeInit /\ [][CodeNext]_vars

TallInit ==
    /\ root = "Paragraph" /\ tracing = TRUE
    /\ PTallInit /\ LLIdle /\ TIdle /\ FIdle /\ BIdle /\ RestIdle(root)

TallNext == \E a \in ParagraphAreas : PRender(a)

SpecTallParagraph == TallInit /\ [][TallNext]_vars

ListInit ==
    /\ root \in {"OrderedList", "UnorderedList"} /\ tracing = TRUE
    /\ LInit /\ CoreIdle /\ RestIdle(root)

ListNext ==
    \/ \E e \in ListChildren : OLPush(e)
    \/ \E e \in ListChildren : ULPush(e)
    \/ \E e \in ListChildren : ULPushNoBullet(e)
    \/ \E a \in BulletAreas : LRender(a)

SpecList == ListInit /\ [][ListNext]_vars

\* The element tree is built first; then the driver keeps calling render on its
\* root element, a LinearLayout or a TableLayout, with fresh areas in which a
\* child can place a line.  The children are the ones that finish after finitely
\* many calls.
FairInit ==
    /\ tracing = FALSE
    /\ \/ root = "LinearLayout" /\ LLInit /\ TIdle
       \/ root = "TableLayout" /\ TInit /\ LLIdle
    /\ FIdle /\ BIdle /\ PIdle /\ RestIdle(root)

\* no render call has rendered anything yet
Building ==
    /\ ll_result = DefaultResult /\ ll_render_idx = 0
    /\ t_result = DefaultResult /\ t_render_idx = 0

LLPushFinite == Building /\ \E e \in FiniteChildren : LLPush(e)

LLRenderPositive == \E a \in PositiveAreas : LLRender(a)

TPushFinite ==
    \E cells \in RowInputs(Len(t_column_weights)) :
        /\ Building
        /\ \A i \in 1..Len(cells) : cells[i] \in FiniteChildren
        /\ TPushRow(cells)

TRenderPositive == \E a \in RoomyTableAreas : TRender(a)

\* the driver's render call on its root element
RenderPositive == LLRenderPositive \/ TRenderPositive

FairNext == LLPushFinite \/ TPushFinite \/ RenderPositive

FairSpec == FairInit /\ [][FairNext]_vars /\ WF_vars(RenderPositive)

\* ------------------------------------------------- LinearLayout: properties

RECURSIVE SumHeights(_)
SumHeights(log) ==
    IF log = <<>> THEN 0 ELSE log[1].res.size.height + SumHeights(Tail(log))

RECURSIVE StackAll(_)
StackAll(log) ==
    IF log = <<>> THEN ZeroSize
    ELSE StackVertical(StackAll(SubSeq(log, 1, Len(log) - 1)), log[Len(log)].res.size)

\* the child calls made by render call c, in the order they were made
LLCallLog(c) == SelectSeq(ll_hist, LAMBDA x : x.call = c)

\* C2: in every render call the children are rendered in insertion order from the
\* resume cursor, each into the area left by the children before it, no child is
\* rendered into an area without height, a child that reports has_more ends the
\* call with has_more = TRUE, and so does an exhausted area with children left.
C2_RenderInOrderIntoShrinkingArea ==
    \A c \in 1..Len(ll_calls) :
        LET call == ll_calls[c]
            log == LLCallLog(c)
            left == call.area.height - SumHeights(log)
        IN  /\ \A k \in 1..Len(log) :
                 /\ log[k].idx = call.idx_before + (k - 1)
                 /\ log[k].idx < call.n
                 /\ log[k].area.height =
                        call.area.height - SumHeights(SubSeq(log, 1, k - 1))
                 /\ log[k].area.height > 0
                 /\ log[k].area.width = call.area.width
                 /\ log[k].res.has_more =>
                        k = Len(log) /\ call.result.has_more
            /\ ~call.result.err =>
                 /\ (left <= 0 /\ call.idx_before + Len(log) < call.n)
                        => call.result.has_more
                 /\ ~call.result.has_more =>
                        call.idx_before + Len(log) = call.n

\* a call that rendered two children, the second one into the area the first one
\* left, and was stopped by the second one's has_more
C2_Witness ==
    \E c \in 1..Len(ll_calls) :
        LET log == LLCallLog(c) IN
          /\ Len(log) >= 2
          /\ log[Len(log)].res.has_more
          /\ log[Len(log)].area.height < ll_calls[c].area.height
          /\ log[Len(log)].res.size.height > 0

\* a call that stopped with has_more because the area was used up by a child that
\* finished, with a child left
C2_WitnessAreaUsedUp ==
    \E c \in 1..Len(ll_calls) :
        LET log == LLCallLog(c) IN
          /\ Len(log) >= 1
          /\ ~log[Len(log)].res.has_more
          /\ ll_calls[c].result.has_more
          /\ ll_calls[c].area.height - SumHeights(log) = 0

\* C3: over all render calls, the first child call is for child 0; after a child
\* call that reported has_more the next child call is for the same child, in a
\* later render call; after one that reported has_more = FALSE it is for the next
\* child.  So no child is skipped and a finished child is never rendered again.
C3_ResumesAtCursor ==
    /\ ll_hist # <<>> => ll_hist[1].idx = 0
    /\ \A i \in 1..(Len(ll_hist) - 1) :
          IF ll_hist[i].res.has_more
          THEN /\ ll_hist[i + 1].idx = ll_hist[i].idx
               /\ ll_hist[i + 1].call > ll_hist[i].call
          ELSE /\ ll_hist[i + 1].idx = ll_hist[i].idx + 1
               /\ ll_hist[i + 1].call >= ll_hist[i].call
    /\ ll_render_idx =
          IF ll_hist = <<>> THEN 0
          ELSE LET last == ll_hist[Len(ll_hist)] IN
               IF last.res.has_more \/ last.res.err THEN last.idx ELSE last.idx + 1

\* a child paused a call, was resumed first by the next call and finished there,
\* and the child after it was rendered
C3_Witness ==
    \E i \in 1..(Len(ll_hist) - 2) :
        /\ ll_hist[i].res.has_more
        /\ ll_hist[i + 1].idx = ll_hist[i].idx
        /\ ~ll_hist[i + 1].res.has_more
        /\ ll_hist[i + 2].idx = ll_hist[i].idx + 1
        /\ ll_hist[i + 2].call = ll_hist[i + 1].call

\* C5: the size a render call reports is the vertical stack of the sizes of the
\* children rendered in that call, the one that reported has_more included.
C5_SizeIsVerticalStack ==
    \A c \in 1..Len(ll_calls) :
        ~ll_calls[c].result.err =>
            LET log == LLCallLog(c) IN
              /\ ll_calls[c].result.size = StackAll(log)
              /\ ll_calls[c].result.size.height = SumHeights(log)
              /\ \A k \in 1..Len(log) :
                    ll_calls[c].result.size.width >= log[k].res.size.width
              /\ log # <<>> => \E k \in 1..Len(log) :
                    ll_calls[c].result.size.width = log[k].res.size.width

\* a call that rendered two children of different widths, the second one partly
C5_Witness ==
    \E c \in 1..Len(ll_calls) :
        LET log == LLCallLog(c) IN
          /\ Len(log) = 2
          /\ log[1].res.size.height > 0
          /\ log[2].res.has_more /\ log[2].res.size.height > 0
          /\ log[1].res.size.width > log[2].res.size.width

\* -------------------------------------------------- TableLayout: properties

\* the numbers of the push_row calls that returned Ok, in the order of the calls
RECURSIVE AcceptedIds(_)
AcceptedIds(pushes) ==
    IF pushes = <<>> THEN <<>>
    ELSE (IF pushes[1].ok THEN <<pushes[1].id>> ELSE <<>>) \o AcceptedIds(Tail(pushes))

\* C6: push_row returns Ok exactly for a row with as many cells as there are column
\* weights and appends it as the last row; a row of another length is rejected and
\* the rows stay as they were, so no render pass ever renders a rejected row.
C6_RejectedRowNeverStored ==
    /\ \A k \in 1..Len(t_pushes) :
          t_pushes[k].ok <=> (t_pushes[k].len = Len(t_column_weights))
    /\ [i \in 1..Len(t_rows) |-> t_rows[i].id] = AcceptedIds(t_pushes)
    /\ \A i \in 1..Len(t_rows) : Len(t_rows[i].cells) = Len(t_column_weights)
    /\ \A i \in 1..Len(t_hist) :
          /\ \E k \in 1..Len(t_pushes) : t_pushes[k].id = t_hist[i].id /\ t_pushes[k].ok
          /\ t_hist[i].err \/ Len(t_hist[i].cells) = Len(t_column_weights)

\* a row was rejected, a later row was accepted, and a render pass rendered it
C6_Witness ==
    /\ Len(t_pushes) >= 2
    /\ ~t_pushes[1].ok /\ t_pushes[1].len > Len(t_column_weights)
    /\ t_pushes[2].ok
    /\ t_hist # <<>>
    /\ ~t_result.has_more /\ ~t_result.err

\* the render_row calls made by render call c
TCallLog(c) == SelectSeq(t_hist, LAMBDA x : x.call = c)

\* C7: a row one of whose cells reports has_more is marked incomplete; it is the
\* last row rendered in its call, the call returns has_more, the cursor stays on
\* it, and the next call starts with it.  Rows are rendered in order, and a
\* complete row is never rendered again.
C7_PausedRowResumes ==
    /\ t_hist # <<>> => t_hist[1].row = 0
    /\ \A i \in 1..Len(t_hist) :
          ~t_hist[i].err =>
              ((\E k \in 1..Len(t_hist[i].cells) : t_hist[i].cells[k].res.has_more)
                  => t_hist[i].has_more)
    /\ \A i \in 1..(Len(t_hist) - 1) :
          IF t_hist[i].has_more
          THEN /\ t_hist[i + 1].row = t_hist[i].row
               /\ t_hist[i + 1].id = t_hist[i].id
               /\ t_hist[i + 1].call > t_hist[i].call
          ELSE t_hist[i + 1].row = t_hist[i].row + 1
    /\ \A c \in 1..Len(t_calls) :
          LET log == TCallLog(c) IN
            (log # <<>> /\ log[Len(log)].has_more /\ ~log[Len(log)].err)
                => t_calls[c].result.has_more
    /\ (t_hist # <<>> /\ t_hist[Len(t_hist)].has_more) =>
          t_render_idx = t_hist[Len(t_hist)].row

\* a row after the first one was paused by its second cell alone, was rendered
\* again first by the next call, and the row after it was rendered then
C7_Witness ==
    \E i \in 1..(Len(t_hist) - 1) :
        /\ t_hist[i].row = 0
        /\ Len(t_hist[i].cells) = 2
        /\ ~t_hist[i].cells[1].res.has_more
        /\ t_hist[i].cells[2].res.has_more
        /\ t_hist[i].has_more
        /\ t_hist[i + 1].row = 0
        /\ ~t_hist[i + 1].has_more
        /\ i + 2 <= Len(t_hist)
        /\ t_hist[i + 2].row = 1

RECURSIVE MaxCellHeight(_)
MaxCellHeight(cells) ==
    IF cells = <<>> THEN 0
    ELSE Max(cells[1].res.size.height, MaxCellHeight(Tail(cells)))

RECURSIVE SumTotals(_)
SumTotals(log) == IF log = <<>> THEN 0 ELSE log[1].total + SumTotals(Tail(log))

\* C8: for every rendered row the decorator is given the maximum of the cells'
\* heights and the OR of the cells' has_more; the row advances the area and adds
\* to the table's height the total height the decorator returns, which is at
\* least the cell maximum, or the cell maximum when there is no decorator.
C8_RowHeightIsCellMaximum ==
    /\ \A i \in 1..Len(t_hist) :
          LET e == t_hist[i] IN
            ~e.err =>
              /\ e.row_height = MaxCellHeight(e.cells)
              /\ e.has_more = (\E k \in 1..Len(e.cells) : e.cells[k].res.has_more)
              /\ \A k \in 1..Len(e.decor) :
                    /\ e.decor[k].row_height = MaxCellHeight(e.cells)
                    /\ e.decor[k].has_more = e.has_more
                    /\ e.decor[k].height = e.total
              /\ e.total >= MaxCellHeight(e.cells)
              /\ t_decorator.present => Len(e.decor) = Len(t_column_weights)
              /\ ~t_decorator.present => e.decor = <<>> /\ e.total = MaxCellHeight(e.cells)
    /\ \A c \in 1..Len(t_calls) :
          LET log == TCallLog(c) IN
            /\ \A k \in 1..Len(log) :
                  log[k].area.height =
                      t_calls[c].area.height - SumTotals(SubSeq(log, 1, k - 1))
            /\ ~t_calls[c].result.err =>
                  t_calls[c].result.size.height = SumTotals(log)

\* a decorated row of two cells of different heights whose total is larger than
\* the cell maximum, followed by another row in the same call
C8_Witness ==
    \E i \in 1..(Len(t_hist) - 1) :
        /\ t_hist[i].call = t_hist[i + 1].call
        /\ Len(t_hist[i].cells) = 2
        /\ t_hist[i].cells[1].res.size.height # t_hist[i].cells[2].res.size.height
        /\ t_hist[i].decor # <<>>
        /\ t_hist[i].total > t_hist[i].row_height
        /\ t_hist[i].row_height > 0

\* ------------------------------------------------------------- convergence

C4_WitnessLayout ==
    /\ root = "LinearLayout"
    /\ ll_result.has_more
    /\ ll_render_idx + 1 < Len(ll_elements)

\* C9: for a FramedElement the top line is drawn only in the first render call,
\* the bottom line only in the call in which the child reports has_more = FALSE,
\* and the left and the right line in every call
C9_FrameBorders ==
    \A i \in 1..Len(f_hist) :
        ~f_hist[i].result.err =>
            /\ f_hist[i].top <=> i = 1
            /\ f_hist[i].bottom <=> ~f_hist[i].child.has_more
            /\ f_hist[i].left /\ f_hist[i].right

\* a child that took three calls: the top line on the first page only, the
\* bottom line on the third page only
C9_Witness ==
    /\ Len(f_hist) = 3
    /\ f_hist[1].child.has_more /\ f_hist[1].child.size.height > 0
    /\ f_hist[2].child.has_more /\ f_hist[2].child.size.height > 0
    /\ ~f_hist[3].child.has_more /\ f_hist[3].child.size.height > 0
    /\ f_hist[1].top /\ ~f_hist[2].top /\ ~f_hist[3].top
    /\ ~f_hist[1].bottom /\ ~f_hist[2].bottom /\ f_hist[3].bottom

\* the render calls on the bullet point that returned Ok
BOkCalls == {i \in 1..Len(b_hist) : ~b_hist[i].result.err}

\* C10: over any sequence of render calls on a BulletPoint the bullet is printed
\* exactly once, in the first render call, and in no resumed call
C10_BulletOnceInFirstCall ==
    \A i \in BOkCalls : b_hist[i].printed <=> i = 1

\* what render does instead: no resumed call prints the bullet, and the first
\* call prints it iff a line fits its area
C10_BulletInFirstCallIfItFits ==
    \A i \in BOkCalls :
        b_hist[i].printed <=> (i = 1 /\ FitsLine(b_hist[i].area))

\* a bullet point whose first call got an area lower than a line and whose
\* child was rendered completely by the calls after it: the bullet is missing
C10_BulletNeverPrinted ==
    /\ Len(b_hist) >= 2
    /\ ~FitsLine(b_hist[1].area)
    /\ b_hist[1].result.has_more
    /\ ~b_result.err /\ ~b_result.has_more
    /\ \A i \in 1..Len(b_hist) : ~b_hist[i].printed

\* C1: after every render call of a Paragraph that returned Ok, the characters
\* printed so far followed by the characters of the pending words (and of the
\* strings not yet split into words) are the original text, for every alignment;
\* so when a call returns has_more = FALSE the printed characters are the
\* original text, once
C1_EmittedThenPendingIsOriginal ==
    ~p_failed =>
        /\ p_emitted \o Concat(p_words) \o Concat(p_text) = p_orig
        /\ (p_emitted # <<>> /\ ~p_result.has_more) => p_emitted = p_orig

\* a hyphenated paragraph whose front word was cut in place by one call and that
\* a later call finished, a letter of each kind in its text
C1_Witness ==
    /\ p_resumed
    /\ ~p_failed /\ ~p_result.has_more
    /\ p_emitted = p_orig
    /\ Len(p_orig) = MaxTextLen
    /\ \E i, j \in 1..Len(p_orig) : p_orig[i] = "a" /\ p_orig[j] = "b"

\* a call that printed the start of a word and left its end in the queue
C1_WitnessSplitInPlace ==
    /\ p_last.split
    /\ p_result.has_more
    /\ p_alignment = "Justified"
    /\ Len(p_words) >= 2

\* the render calls on the padded element that returned Ok
PdOkCalls == {i \in 1..Len(pd_hist) : ~pd_hist[i].result.err}

\* C11: PaddedElement::render hands its child the area shrunk by the left, right
\* and top padding only, reports the child's width plus left + right and the
\* child's height plus top + bottom, and reports the child's has_more
C11_PaddingAroundChild ==
    \A i \in PdOkCalls :
        LET h == pd_hist[i] IN
          /\ h.child_area.width = h.area.width - pd_padding.left - pd_padding.right
          /\ h.child_area.height = h.area.height - pd_padding.top
          /\ h.result.size.width = h.child.size.width + pd_padding.left + pd_padding.right
          /\ h.result.size.height = h.child.size.height + pd_padding.top + pd_padding.bottom
          /\ h.result.has_more = h.child.has_more

\* a child padded on every side that paused in one call and finished in the next
C11_Witness ==
    /\ \A side \in {"top", "right", "bottom", "left"} : pd_padding[side] > 0
    /\ Len(pd_hist) = 2
    /\ pd_hist[1].result.has_more /\ pd_hist[1].child.size.height > 0
    /\ ~pd_hist[2].result.has_more /\ ~pd_hist[2].result.err
    /\ pd_hist[2].child.size.height > 0

\* C12 as stated: when the child reports a height no larger than the height of
\* the area it received, PaddedElement::render reports a height no larger than
\* the height of the area it received
C12_PaddedHeightWithinArea ==
    \A i \in PdOkCalls :
        LET h == pd_hist[i] IN
          h.child.size.height <= h.child_area.height =>
              h.result.size.height <= h.area.height

\* C12 amended: the reported height is no larger than the height of the area
\* plus the bottom padding, which is withheld from the inner area
C12_PaddedHeightWithinAreaPlusBottom ==
    \A i \in PdOkCalls :
        LET h == pd_hist[i] IN
          h.child.size.height <= h.child_area.height =>
              h.result.size.height <= h.area.height + pd_padding.bottom

\* a child that filled the area it received, under a bottom padding: the
\* reported height is the height of the area plus the bottom padding
C12_Witness ==
    \E i \in PdOkCalls :
        LET h == pd_hist[i] IN
          /\ pd_padding.bottom > 0 /\ pd_padding.top > 0
          /\ h.child.size.height > 0
          /\ h.child.size.height = h.child_area.height
          /\ h.result.size.height = h.area.height + pd_padding.bottom

\* ------------------------------------------------------ the glyph batcher

GlyphEvents == {n \in 1..Len(m_events) : m_events[n].kind = "glyph"}
RuleEvents == {n \in 1..Len(m_events) : m_events[n].kind = "rule"}
Sections == {i \in 1..Len(m_math_ops) : m_math_ops[i].kind = "TextSection"}

\* the op that draws event n
OpOf(n) ==
    CHOOSE i \in 1..Len(m_math_ops) :
        \E k \in 1..Len(m_math_ops[i].src) : m_math_ops[i].src[k] = n

\* event n started a new run
Opened(n) == \E i \in Sections : m_math_ops[i].src[1] = n

\* run i was there when event n arrived
ExistedBefore(i, n) == m_math_ops[i].src[1] < n

\* C13 as stated: a glyph whose vertical origin is no more than the tolerance
\* away from an existing run's (the boundary included) and whose font size and
\* colour equal the run's does not start a new run
C13_WithinToleranceJoins ==
    \A n \in GlyphEvents, i \in Sections :
        (/\ ExistedBefore(i, n)
         /\ Abs(m_math_ops[i].y_origin - m_events[n].y) <= POSITIONING_ACCURACY
         /\ m_math_ops[i].font_size = m_events[n].font_size
         /\ m_math_ops[i].color = m_events[n].color)
            => ~Opened(n)

\* what can_append does instead: the glyph joins when it is less than the
\* tolerance away
C13_BelowToleranceJoins ==
    \A n \in GlyphEvents, i \in Sections :
        (/\ ExistedBefore(i, n)
         /\ Abs(m_math_ops[i].y_origin - m_events[n].y) < POSITIONING_ACCURACY
         /\ m_math_ops[i].font_size = m_events[n].font_size
         /\ m_math_ops[i].color = m_events[n].color)
            => ~Opened(n)

\* two glyphs of one size and colour exactly the tolerance apart, in two runs
C13_BoundarySplitsRun ==
    \E n \in GlyphEvents, i \in Sections :
        /\ ExistedBefore(i, n)
        /\ Abs(m_math_ops[i].y_origin - m_events[n].y) = POSITIONING_ACCURACY
        /\ m_math_ops[i].font_size = m_events[n].font_size
        /\ m_math_ops[i].color = m_events[n].color
        /\ Opened(n)

\* C14 as stated: every glyph stored in a run has the run's font size and
\* colour and is no more than the tolerance away from the run's vertical origin
C14_RunIsHomogeneous ==
    \A i \in Sections :
        \A k \in 1..Len(m_math_ops[i].src) :
            LET e == m_events[m_math_ops[i].src[k]] IN
              /\ e.font_size = m_math_ops[i].font_size
              /\ e.color = m_math_ops[i].color
              /\ Abs(e.y - m_math_ops[i].y_origin) <= POSITIONING_ACCURACY

\* what can_append does instead: the font size of a glyph in a run is the
\* run's or larger
C14_RunHoldsLargerGlyphs ==
    \A i \in Sections :
        \A k \in 1..Len(m_math_ops[i].src) :
            LET e == m_events[m_math_ops[i].src[k]] IN
              /\ e.font_size >= m_math_ops[i].font_size
              /\ e.color = m_math_ops[i].color
              /\ Abs(e.y - m_math_ops[i].y_origin) < POSITIONING_ACCURACY

\* a run that holds a glyph of a larger font size than its own
C14_LargerGlyphInRun ==
    \E i \in Sections :
        \E k \in 1..Len(m_math_ops[i].src) :
            m_events[m_math_ops[i].src[k]].font_size > m_math_ops[i].font_size

\* C15 as stated: of a rule event and a glyph event, the one that arrived
\* first is drawn by the earlier operation of the output list
C15_OpsKeepEventOrder ==
    \A a, b \in 1..Len(m_events) :
        (a < b /\ m_events[a].kind # m_events[b].kind) => OpOf(a) < OpOf(b)

\* a glyph that arrived after a rule and is drawn by an operation before it
C15_GlyphDrawnBeforeEarlierRule ==
    \E a \in RuleEvents, b \in GlyphEvents : a < b /\ OpOf(b) < OpOf(a)

\* C16: the glyph ids of a run are those of the events that joined it, in
\* input order; the runs are in the order in which their first glyphs arrived;
\* a glyph that several runs could take has joined the earliest of them
C16_RunsKeepInputOrder ==
    /\ \A i \in Sections :
          LET sec == m_math_ops[i] IN
            /\ Len(sec.glyph_ids) = Len(sec.src)
            /\ \A k \in 1..Len(sec.src) : sec.glyph_ids[k] = m_events[sec.src[k]].glyph_id
            /\ \A k \in 1..(Len(sec.src) - 1) : sec.src[k] < sec.src[k + 1]
    /\ \A i, j \in Sections : i < j => m_math_ops[i].src[1] < m_math_ops[j].src[1]
    /\ \A n \in GlyphEvents : \A j \in Sections :
          (j < OpOf(n) /\ ExistedBefore(j, n))
              => ~can_append(m_math_ops[j], m_events[n].y, m_events[n].font_size,
                             m_events[n].color)

\* a glyph that two runs could take and that joined the first of them
C16_Witness ==
    \E n \in GlyphEvents : \E j \in Sections :
        /\ OpOf(n) < j
        /\ ExistedBefore(j, n)
        /\ ~Opened(n)
        /\ can_append(m_math_ops[j], m_events[n].y, m_events[n].font_size,
                       m_events[n].color)

RECURSIVE SumFirst(_, _)
SumFirst(q, k) == IF k = 0 THEN 0 ELSE q[k] + SumFirst(q, k - 1)

\* the advances of the first k glyphs of a run
RunAdvances(sec) == [k \in 1..Len(sec.src) |-> m_events[sec.src[k]].advance]

\* C17: the first offset of a run is the first glyph's x position in EM, every
\* later one the glyph's x position in EM minus the previous glyph's x position
\* in EM plus advance; the offsets up to a glyph plus the advances before it
\* give back the glyph's x position
C17_OffsetsAreDeltas ==
    \A i \in Sections :
        LET sec == m_math_ops[i]
            e(k) == m_events[sec.src[k]]
            em(k) == mm_to_em(e(k).x, e(k).font_size)
        IN  /\ Len(sec.x_offsets) = Len(sec.src)
            /\ sec.x_offsets[1] = em(1)
            /\ \A k \in 2..Len(sec.src) :
                  sec.x_offsets[k] = em(k) - (em(k - 1) + e(k - 1).advance)
            /\ \A k \in 1..Len(sec.src) :
                  LET x_pos == SumFirst(sec.x_offsets, k)
                                   + SumFirst(RunAdvances(sec), k - 1)
                  IN  /\ x_pos = em(k)
                      /\ x_pos * e(k).font_size * PX_TO_MM = e(k).x * EmUnits

\* a run of MaxEvents glyphs, one of them left of the right edge of the glyph
\* before it and one right of it
C17_Witness ==
    \E i \in Sections :
        /\ Len(m_math_ops[i].src) = MaxEvents
        /\ \E k \in 2..MaxEvents : m_math_ops[i].x_offsets[k] < 0
        /\ \E k \in 2..MaxEvents : m_math_ops[i].x_offsets[k] > 0

\* C18: every glyph and every rule is stamped with the colour of the last
\* begin_color when no toggle followed it, and with black initially and after
\* end_color, also when begin_color events were nested
C18_StampedWithCurrentColor ==
    \A n \in 1..Len(m_events) : m_math_ops[OpOf(n)].color = m_events[n].color

\* a rule and a glyph, one stamped with a colour and one stamped black after
\* the end_color that followed two begin_color events
C18_Witness ==
    \E a, b \in 1..Len(m_events) :
        /\ m_events[a].kind # m_events[b].kind
        /\ m_events[a].color # Black
        /\ m_events[b].after_nested_end /\ m_events[b].color = Black
        /\ m_math_ops[OpOf(b)].color = Black

\* --------------------------------------------------- justified paragraphs

Justified == p_alignment \in {"Justified", "JustifiedTrimmed"}

\* line k of the lines the last call placed is the final line of the paragraph:
\* it is the last one placed and no character is pending after the call
FinalLine(k) ==
    /\ k = Len(p_last.placed)
    /\ Concat(p_words) \o Concat(p_text) = <<>>

\* the width of a line that the spacing is computed from: without the leading
\* spaces of the first string and, when trim_spaces is set, the trailing spaces
\* of the last string
JustifiedWidth(line) ==
    StrWidth(Concat(line))
        - (Len(line[1]) - Len(TrimStart(line[1])))
        - (IF p_alignment = "JustifiedTrimmed"
           THEN Len(line[Len(line)]) - Len(TrimEnd(line[Len(line)]))
           ELSE 0)

\* C19: the extra word spacing is zero for the final line of the paragraph under
\* every alignment (and for every line that is not justified); a justified line
\* that is not the final line gets the leftover space of the area, also when it
\* is the last line placed before a page break
C19_NoSpacingOnFinalLine ==
    ~p_failed =>
        \A k \in 1..Len(p_last.placed) :
            LET l == p_last.placed[k] IN
              /\ FinalLine(k) => l.extra.num = 0
              /\ ~Justified => l.extra.num = 0
              /\ (Justified /\ ~FinalLine(k)) =>
                     l.extra.num = p_last.area.width - JustifiedWidth(l.line)

\* a justified paragraph paused by a page break: the last line placed before
\* the break is spaced out
C19_Witness ==
    /\ Justified /\ ~p_failed
    /\ p_result.has_more
    /\ Len(p_last.placed) >= 1
    /\ p_last.placed[Len(p_last.placed)].extra.num > 0

\* a justified paragraph whose final line is shorter than the area and is not
\* spaced out, behind a line that is
C19_WitnessFinalLine ==
    /\ Justified /\ ~p_failed
    /\ Len(p_last.placed) >= 2
    /\ FinalLine(Len(p_last.placed))
    /\ p_last.placed[1].extra.num > 0
    /\ p_last.placed[Len(p_last.placed)].width < p_last.area.width
    /\ p_last.placed[Len(p_last.placed)].extra.num = 0

\* C20: for a justified line of N >= 2 words that is not the final line, the
\* extra spacing is (available width - line width) / (N - 1) over the font
\* size, so the line width plus N - 1 times the spacing (in Mm: times the font
\* size) is the available width
C20_JustifiedLineFillsWidth ==
    ~p_failed =>
        \A k \in 1..Len(p_last.placed) :
            LET l == p_last.placed[k]
                N == Len(l.line)
            IN  (Justified /\ ~FinalLine(k) /\ N >= 2) =>
                  /\ l.extra.num * (N - 1) * FontSize
                         = (p_last.area.width - JustifiedWidth(l.line)) * l.extra.den
                  /\ JustifiedWidth(l.line) * l.extra.den
                         + (N - 1) * l.extra.num * FontSize
                         = p_last.area.width * l.extra.den

\* a justified line of two words that is spaced out, with trim_spaces set and a
\* space at its end
C20_Witness ==
    /\ p_alignment = "JustifiedTrimmed" /\ ~p_failed
    /\ \E k \in 1..Len(p_last.placed) :
          LET l == p_last.placed[k] IN
            /\ ~FinalLine(k)
            /\ Len(l.line) >= 2
            /\ l.extra.num > 0
            /\ JustifiedWidth(l.line) < l.width


\* ------------------------------------------------------ paragraph alignment

\* the leading and the trailing whitespace of a line
LeadingSpace(line) == Len(line[1]) - Len(TrimStart(line[1]))
TrailingSpace(line) == Len(line[Len(line)]) - Len(TrimEnd(line[Len(line)]))

\* the widest of the lines a call placed
RECURSIVE MaxWidth(_)
MaxWidth(placed) ==
    IF placed = <<>> THEN 0
    ELSE Max(StrWidth(Concat(placed[1].line)), MaxWidth(Tail(placed)))

\* C21: every line a call places starts at 0 under Left and Justified, at
\* (available width - line width) / 2 under Center and at available width -
\* line width under Right (offsets are kept in half units); the width the line
\* adds to the result is the sum of its word widths and every line advances
\* the result by one line height, whatever the alignment
C21_OffsetByAlignment ==
    /\ \A k \in 1..Len(p_last.placed) :
          LET l == p_last.placed[k]
              w == StrWidth(Concat(l.line))
              avail == p_last.area.width
          IN  /\ l.width = w
              /\ p_alignment \in {"Left", "Justified", "JustifiedTrimmed"} => l.x2 = 0
              /\ p_alignment = "Center" => l.x2 = avail - w
              /\ p_alignment = "Right" => l.x2 = 2 * (avail - w)
    /\ ~p_failed =>
          /\ p_result.size.width = MaxWidth(p_last.placed)
          /\ p_result.size.height = Len(p_last.placed) * p_line_height

\* a centred paragraph of two lines of different widths, one of them pushed in
\* by half a unit
C21_Witness ==
    /\ p_alignment = "Center" /\ ~p_failed
    /\ Len(p_last.placed) = 2
    /\ p_last.placed[1].x2 # p_last.placed[2].x2
    /\ \E k \in 1..2 : p_last.placed[k].x2 % 2 = 1

\* a right-aligned line that is shorter than the area
C21_WitnessRight ==
    /\ p_alignment = "Right" /\ ~p_failed
    /\ \E k \in 1..Len(p_last.placed) :
          /\ p_last.placed[k].x2 = 2 * (p_last.area.width - p_last.placed[k].width)
          /\ p_last.placed[k].x2 > 0

\* C22: for a justified line that is spaced out, trim_spaces decides whether
\* the leading whitespace of the first word and the trailing whitespace of the
\* last word are left out of the line width: both with trim_spaces, neither
\* without
C22_TrimSpacesControlsBothEnds ==
    (Justified /\ ~p_failed) =>
        \A k \in 1..Len(p_last.placed) :
            LET l == p_last.placed[k]
                excluded == IF p_alignment = "JustifiedTrimmed"
                            THEN LeadingSpace(l.line) + TrailingSpace(l.line)
                            ELSE 0
            IN  ~FinalLine(k) =>
                    l.extra.num = p_last.area.width - (l.width - excluded)

\* what the code does: trim_spaces decides on the trailing whitespace only,
\* the leading whitespace is left out under both settings
C22_TrimSpacesControlsTrailing ==
    (Justified /\ ~p_failed) =>
        \A k \in 1..Len(p_last.placed) :
            LET l == p_last.placed[k]
                excluded == LeadingSpace(l.line)
                              + (IF p_alignment = "JustifiedTrimmed"
                                 THEN TrailingSpace(l.line) ELSE 0)
            IN  ~FinalLine(k) =>
                    l.extra.num = p_last.area.width - (l.width - excluded)

\* Justified(false): a spaced line that starts with whitespace, and the
\* whitespace is left out of its width
C22_LeadingExcludedWithoutTrim ==
    /\ p_alignment = "Justified" /\ ~p_failed
    /\ \E k \in 1..Len(p_last.placed) :
          LET l == p_last.placed[k] IN
            /\ ~FinalLine(k)
            /\ LeadingSpace(l.line) > 0
            /\ l.extra.num = p_last.area.width - l.width + LeadingSpace(l.line)


\* ----------------------------------------------- FrameCellDecorator: borders

\* entry i of the history is the first rendering of its row
FirstRendering(i) == \A j \in 1..(i - 1) : t_hist[j].row # t_hist[i].row

\* C23: for every cell a framed table decorates: the top border is the outer
\* one at row 0 and the inner one at every other row when the row is rendered
\* for the first time, and the continuation border when the row is rendered
\* again; the bottom border is the continuation border when the row pauses and
\* the outer one when the last row of the table completes; the left border is
\* the outer one at column 0 and the inner one elsewhere; the right border is
\* the outer one at the last column.  Each is drawn iff its flag is set
C23_BordersByKind ==
    \A i \in 1..Len(t_hist) :
        \A c \in 1..Len(t_hist[i].decor) :
            LET e == t_hist[i]
                b == e.decor[c]
                d == t_decorator
                num_rows == t_calls[e.call].n
                num_columns == Len(t_column_weights)
            IN  /\ b.top = IF FirstRendering(i)
                           THEN (IF e.row = 0 THEN d.outer ELSE d.inner)
                           ELSE d.cont
                /\ b.bottom = IF e.has_more THEN d.cont
                              ELSE (e.row + 1 = num_rows /\ d.outer)
                /\ b.left = IF c = 1 THEN d.outer ELSE d.inner
                /\ b.right = (c = num_columns /\ d.outer)

\* continuation borders alone: a row of two cells pauses with a border below
\* it and none above, and is rendered again with a border above it
C23_Witness ==
    /\ t_decorator.cont /\ ~t_decorator.outer /\ ~t_decorator.inner
    /\ \E i \in 1..(Len(t_hist) - 1) :
          /\ t_hist[i].has_more
          /\ Len(t_hist[i].decor) = 2
          /\ t_hist[i].decor[1].bottom /\ ~t_hist[i].decor[1].top
          /\ t_hist[i + 1].row = t_hist[i].row
          /\ Len(t_hist[i + 1].decor) = 2
          /\ t_hist[i + 1].decor[2].top

\* inner and outer borders without continuation borders: the second of two
\* rows has the inner border above, the outer border below, and its second cell
\* the inner border at its left and the outer border at its right
C23_WitnessInnerOuter ==
    /\ t_decorator.inner /\ t_decorator.outer /\ ~t_decorator.cont
    /\ \E i \in 1..Len(t_hist) :
          /\ t_hist[i].row = 1 /\ ~t_hist[i].has_more
          /\ Len(t_hist[i].decor) = 2
          /\ t_hist[i].decor[2].top /\ t_hist[i].decor[2].bottom
          /\ t_hist[i].decor[2].left /\ t_hist[i].decor[2].right

\* the rows that were decorated, in the order of their rendering
Decorated == SelectSeq(t_hist, LAMBDA e : e.decor # <<>>)
Completed == SelectSeq(t_hist, LAMBDA e : e.decor # <<>> /\ ~e.has_more)

\* C24: between render calls last_row is the index of the last row all of
\* whose cells reported has_more = FALSE (None before any row completed)
C24_LastRowIsLastCompleted ==
    t_decorator.present =>
        t_decorator.last_row =
            IF Completed = <<>> THEN -1 ELSE Completed[Len(Completed)].row

\* between render calls last_row is the index of the last row that was
\* decorated, complete or paused (None before any row was decorated)
C24_LastRowIsLastDecorated ==
    t_decorator.present =>
        t_decorator.last_row =
            IF Decorated = <<>> THEN -1 ELSE Decorated[Len(Decorated)].row

\* the second row paused after the first one completed, and last_row is the
\* index of the paused row
C24_Witness ==
    /\ t_decorator.present
    /\ Len(Completed) = 1
    /\ Len(Decorated) = 2
    /\ Decorated[2].row = 1 /\ Decorated[2].has_more
    /\ t_decorator.last_row = 1


\* ------------------------------------------------------- error propagation

\* C25: when a child's render call returns Err, the render call of the
\* LinearLayout, TableLayout, FramedElement, BulletPoint, PaddedElement or
\* StyledElement around it returns that Err; the child call that failed is the
\* last child call of the render call (no further child or cell is rendered,
\* the child is not rendered again), nothing is drawn for it and nothing is
\* reported in its place
C25_ChildErrorPropagates ==
    /\ \A i \in 1..Len(ll_hist) :
          ll_hist[i].res.err =>
              /\ i = Len(ll_hist)
              /\ ll_calls[ll_hist[i].call].result = ll_hist[i].res
              /\ ll_failed
    /\ \A i \in 1..Len(t_hist) :
          \A k \in 1..Len(t_hist[i].cells) :
              t_hist[i].cells[k].res.err =>
                  /\ k = Len(t_hist[i].cells)
                  /\ i = Len(t_hist)
                  /\ t_hist[i].err /\ t_hist[i].decor = <<>>
                  /\ t_calls[t_hist[i].call].result = t_hist[i].cells[k].res
                  /\ t_failed
    /\ \A i \in 1..Len(f_hist) :
          f_hist[i].child.err =>
              /\ f_hist[i].result = f_hist[i].child
              /\ ~f_hist[i].top /\ ~f_hist[i].bottom
              /\ ~f_hist[i].left /\ ~f_hist[i].right
              /\ i = Len(f_hist) /\ f_failed
    /\ \A i \in 1..Len(b_hist) :
          b_hist[i].child.err =>
              /\ b_hist[i].result = b_hist[i].child
              /\ ~b_hist[i].printed
              /\ i = Len(b_hist) /\ b_failed
    /\ \A i \in 1..Len(pd_hist) :
          pd_hist[i].child.err =>
              /\ pd_hist[i].result = pd_hist[i].child
              /\ i = Len(pd_hist) /\ pd_failed
    /\ \A i \in 1..Len(s_hist) :
          s_hist[i].child.err =>
              /\ s_hist[i].result = s_hist[i].child
              /\ i = Len(s_hist) /\ s_failed

\* a styled element with a style of its own whose child returned Err
C25_Witness ==
    /\ root = "StyledElement"
    /\ s_style # {}
    /\ Len(s_hist) = 1
    /\ s_hist[1].child.err /\ s_hist[1].result.err
    /\ s_failed

\* the first cell of a row of two returned Err
C25_WitnessTable ==
    /\ root = "TableLayout"
    /\ \E i \in 1..Len(t_hist) :
          /\ Len(t_hist[i].cells) = 1
          /\ t_hist[i].cells[1].res.err
          /\ t_failed

\* the second child of a layout returned Err after the first one was rendered
C25_WitnessLayout ==
    /\ root = "LinearLayout"
    /\ Len(ll_elements) = 2 /\ Len(ll_hist) >= 2
    /\ ll_hist[Len(ll_hist)].idx = 1
    /\ ll_hist[Len(ll_hist)].res.err
    /\ ll_failed


\* ------------------------------------------------------------------- lists

\* the number a string of decimal digits stands for
RECURSIVE DecimalValue(_)
DecimalValue(str) ==
    IF str = <<>> THEN 0
    ELSE 10 * DecimalValue(SubSeq(str, 1, Len(str) - 1))
           + (CHOOSE d \in 0..9 : DigitChars[d + 1] = str[Len(str)])

\* C26: the k-th bullet point of an ordered list is labelled with the decimal
\* number start + k - 1 followed by "." and the list's number is start plus the
\* number of its points, in every state, whatever was rendered; every point
\* that push added to an unordered list has the bullet the list was created
\* with, or the default bullet of BulletPoint::new when it has none
C26_ListLabels ==
    /\ root = "OrderedList" =>
          /\ l_number = l_start + Len(l_layout)
          /\ \A k \in 1..Len(l_layout) :
                LET label == l_layout[k].bullet
                    digits == SubSeq(label, 1, Len(label) - 1)
                IN  /\ Len(label) >= 2
                    /\ label[Len(label)] = "."
                    /\ \A i \in 1..Len(digits) :
                          \E d \in 0..9 : DigitChars[d + 1] = digits[i]
                    /\ Len(digits) > 1 => digits[1] # "0"
                    /\ DecimalValue(digits) = l_start + k - 1
    /\ root = "UnorderedList" =>
          \A k \in 1..Len(l_layout) :
              l_pushes[k] = "push" =>
                  l_layout[k].bullet = IF l_bullet.present THEN l_bullet.s
                                       ELSE DefaultBullet

\* an ordered list that starts at 9: its first point was rendered with its
\* bullet before the second one was pushed, and the labels are "9." and "10."
C26_Witness ==
    /\ root = "OrderedList" /\ l_start = 9
    /\ Len(l_layout) = 2
    /\ l_calls >= 1 /\ l_render_idx >= 1
    /\ l_layout[1].bullet_rendered /\ ~l_layout[2].bullet_rendered
    /\ l_layout[1].bullet = <<"9", ".">>
    /\ l_layout[2].bullet = <<"1", "0", ".">>

\* an unordered list without a bullet of its own, with two points
C26_WitnessUnordered ==
    /\ root = "UnorderedList" /\ ~l_bullet.present
    /\ Len(l_layout) = 2
    /\ l_pushes = <<"push", "push">>
    /\ l_calls >= 1
    /\ l_layout[1].bullet = DefaultBullet /\ l_layout[2].bullet = DefaultBullet


\* --------------------------------------------------------------- PageBreak

\* the positions of the page breaks in the layout
PageBreaks == {i \in 0..(Len(ll_elements) - 1) : ll_elements[i + 1].kind = "PageBreak"}

\* the child calls made for position i, in the order they were made
CallsAt(i) == SelectSeq(ll_hist, LAMBDA x : x.idx = i)

\* the cursor of the layout when render call c returned
CursorAfter(c) ==
    IF c < Len(ll_calls) THEN ll_calls[c + 1].idx_before ELSE ll_render_idx

\* the render calls that returned has_more = TRUE with the cursor at position i
PausesAt(i) ==
    {c \in 1..Len(ll_calls) : ll_calls[c].result.has_more /\ CursorAfter(c) = i}

\* the first render call of a page break returns has_more = TRUE with a size
\* that is not zero, every later one has_more = FALSE with the zero size
PageBreakBreaksOnce(i) ==
    \A k \in 1..Len(CallsAt(i)) :
        LET r == CallsAt(i)[k].res IN
          IF k = 1 THEN r.has_more /\ r.size # ZeroSize /\ ~r.err
          ELSE r = DefaultResult

\* the children after a page break are rendered in a later render call than
\* the one the page break was first rendered in
RenderedAfterBreak(i) ==
    \A j \in 1..Len(ll_hist) :
        ll_hist[j].idx > i =>
            /\ CallsAt(i) # <<>>
            /\ ll_hist[j].call > CallsAt(i)[1].call

\* C27: a page break breaks once, the layout that contains it returns
\* has_more = TRUE with its cursor at the page break exactly once, and the
\* children after the page break are rendered in a later call
C27_LayoutPausesOnceAtPageBreak ==
    \A i \in PageBreaks :
        /\ PageBreakBreaksOnce(i)
        /\ Cardinality(PausesAt(i)) <= 1
        /\ Len(CallsAt(i)) >= 1 => Cardinality(PausesAt(i)) = 1
        /\ RenderedAfterBreak(i)

\* a page break breaks once; the layout returns has_more = TRUE in the call in
\* which the page break is first rendered, and the children after it are
\* rendered in a later call; every other call that returns has_more = TRUE
\* with the cursor at the page break did not render it, because the area was
\* used up before the page break was reached
C27_LayoutPausesAtPageBreakOrFullArea ==
    \A i \in PageBreaks :
        /\ PageBreakBreaksOnce(i)
        /\ Len(CallsAt(i)) >= 1 => CallsAt(i)[1].call \in PausesAt(i)
        /\ \A c \in PausesAt(i) :
              \/ CallsAt(i) # <<>> /\ CallsAt(i)[1].call = c
              \/ /\ \A j \in 1..Len(ll_hist) : ll_hist[j].idx = i => ll_hist[j].call # c
                 /\ ll_calls[c].area.height - SumHeights(LLCallLog(c)) <= 0
        /\ RenderedAfterBreak(i)

\* a page break in front of a text: the first call rendered the page break
\* alone, the second call rendered it again and then the text
C27_Witness ==
    /\ Len(ll_elements) = 2 /\ PageBreaks = {0}
    /\ ll_elements[2].kind = "Text"
    /\ Len(ll_calls) = 2 /\ Len(ll_hist) = 3
    /\ ll_hist[1].idx = 0 /\ ll_hist[1].call = 1 /\ ll_hist[1].res.has_more
    /\ ll_hist[2].idx = 0 /\ ll_hist[2].call = 2 /\ ll_hist[2].res = DefaultResult
    /\ ll_hist[3].idx = 1 /\ ll_hist[3].call = 2
    /\ ll_calls[1].result.has_more /\ ~ll_calls[2].result.has_more

\* a text that uses up the area in front of a page break: the layout returned
\* has_more = TRUE with the cursor at the page break twice, once for the area
\* and once for the page break
C27_WitnessFullArea ==
    /\ Len(ll_elements) = 2 /\ PageBreaks = {1}
    /\ ll_elements[1].kind = "Text"
    /\ Len(ll_calls) = 2
    /\ ll_calls[1].area.height > 0 /\ ll_calls[2].area.height > 0
    /\ PausesAt(1) = {1, 2}
    /\ CallsAt(1) # <<>> /\ CallsAt(1)[1].call = 2


\* ------------------------------------------------------------------- Break

\* the render calls of the break up to the first one that reported
\* has_more = FALSE
RECURSIVE UntilFinished(_)
UntilFinished(hist) ==
    IF hist = <<>> THEN <<>>
    ELSE IF ~hist[1].result.has_more THEN <<hist[1]>>
    ELSE <<hist[1]>> \o UntilFinished(Tail(hist))

RECURSIVE SumBreakHeights(_)
SumBreakHeights(hist) ==
    IF hist = <<>> THEN 0
    ELSE hist[1].result.size.height + SumBreakHeights(Tail(hist))

\* C28: once a break of n > 0 lines has reported has_more = FALSE, the heights
\* it reported up to then add up to n line heights
C28_BreakInsertsAllLines ==
    LET calls == UntilFinished(br_hist) IN
      (br_n > 0 /\ calls # <<>> /\ ~calls[Len(calls)].result.has_more) =>
          SumBreakHeights(calls) = br_n * LineHeight

\* what the code does: every call reports has_more = FALSE and the lower of the
\* height of the lines that are left and the height of the area
C28_BreakNeverAsksForMore ==
    \A k \in 1..Len(br_hist) :
        LET c == br_hist[k] IN
          /\ ~c.result.has_more /\ ~c.result.err
          /\ c.result.size.height =
                 IF c.lines_before <= 0 THEN 0
                 ELSE Min(c.lines_before * LineHeight, c.area.height)

\* a break of two lines whose first call had room for one line: it reported
\* one line height and has_more = FALSE
C28_BreakCutShort ==
    /\ br_n = 2
    /\ br_hist # <<>>
    /\ br_hist[1].area.height = LineHeight
    /\ br_hist[1].result.size.height = LineHeight
    /\ ~br_hist[1].result.has_more
    /\ br_lines = 1


\* --------------------------------------------------------------- CodeBlock

\* the lookup of the highlighter misses, or there is no theme to look up
LookupMiss ==
    \/ ~cb_theme.present
    \/ cb_language \notin KnownLanguages
    \/ cb_theme.name \notin KnownThemes

\* C29: when the language or the theme is unknown or no theme is set, every
\* render call returns Ok and prints the lines of the code it is called with,
\* as far as the area has room for them, each as one span that holds the line
\* without its terminator and carries the base style
C29_LookupMissFallsBack ==
    LookupMiss =>
        \A k \in 1..Len(cb_hist) :
            LET c == cb_hist[k]
                lines == StrLines(c.code_before)
                m == Min(Len(lines), c.area.height \div LineHeight)
            IN  /\ ~c.result.err
                /\ c.result.has_more = (m < Len(lines))
                /\ Len(c.printed) = m
                /\ \A i \in 1..m :
                      c.printed[i] = <<[s |-> lines[i], style |-> BaseStyle]>>

\* a code of two lines for an unknown language with a known theme: both lines
\* were printed as one span each in the base style
C29_Witness ==
    /\ cb_theme = SomeTheme("dark") /\ cb_language \notin KnownLanguages
    /\ Len(cb_hist) = 1
    /\ Len(StrLines(cb_orig)) = 2
    /\ Len(cb_hist[1].printed) = 2
    /\ \A i \in 1..2 :
          /\ Len(cb_hist[1].printed[i]) = 1
          /\ cb_hist[1].printed[i][1].s # <<>>
          /\ cb_hist[1].printed[i][1].style = BaseStyle
    /\ ~cb_hist[1].result.has_more

\* with a known language and a known theme the spans carry the theme's colour
C29_WitnessHighlighted ==
    /\ ~LookupMiss
    /\ Len(cb_hist) = 1
    /\ Len(cb_hist[1].printed) = 2
    /\ cb_hist[1].printed[1][1].style # BaseStyle


\* --------------------------------------------------- paragraph: page overflow

\* the characters that are pending
Pending == Concat(p_words) \o Concat(p_text)

\* the height the last call left unused
Remaining == p_last.area.height - Len(p_last.placed) * p_line_height

C30_WitnessTooLow ==
    /\ ~p_failed /\ p_result.has_more
    /\ Remaining > 0 /\ Remaining < p_line_height
    /\ p_last.placed = <<>>


\* ------------------------------------------------------ table: column widths

\* the sum of the widths of the areas
RECURSIVE SumWidths(_)
SumWidths(areas) ==
    IF areas = <<>> THEN 0 ELSE areas[1].width + SumWidths(Tail(areas))

\* the areas are as many as the weights, as high as the area, and their widths
\* are to the width of the area as the weights are to the sum of the weights
Proportional(areas, area, weights) ==
    /\ Len(areas) = Len(weights)
    /\ \A i \in 1..Len(areas) :
          /\ areas[i].width * SumSeq(weights) = area.width * weights[i]
          /\ areas[i].height = area.height

\* the margins the decorator of the table takes from the cell of a column on
\* the left and on the right
SideMargins(i) ==
    IF t_decorator.present
    THEN Thick(print_left(set_table_size(t_decorator, Len(t_column_weights), 0), i - 1))
         + Thick(print_right(set_table_size(t_decorator, Len(t_column_weights), 0), i - 1))
    ELSE 0

RECURSIVE AllEvents(_)
AllEvents(calls) ==
    IF calls = <<>> THEN <<>> ELSE calls[1].events \o AllEvents(Tail(calls))

DecoratorOps == {"prepare_cell", "decorate_cell"}

SetTableSizeCalls(events) ==
    {i \in 1..Len(events) : events[i].op = "set_table_size"}

\* within every rendered row: prepare_cell for every column, in order, before
\* the first cell is rendered, and if no cell returned Err decorate_cell for
\* every column after the last cell was rendered
RowOrder(events, n) ==
    \A i \in 1..Len(events) :
        /\ events[i].op = "render" =>
              /\ \A c \in 0..(n - 1) :
                    \E j \in 1..(i - 1) :
                        /\ events[j] = [op |-> "prepare_cell", column |-> c,
                                        row |-> events[i].row]
                        /\ \A k \in j..i : events[k].row = events[i].row
                                               /\ events[k].op # "set_table_size"
        /\ events[i].op = "decorate_cell" =>
              /\ \A c \in 0..(n - 1) :
                    \E j \in 1..(i - 1) :
                        /\ events[j] = [op |-> "render", column |-> c,
                                        row |-> events[i].row]
                        /\ \A k \in j..i : events[k].row = events[i].row
                                               /\ events[k].op # "set_table_size"
              /\ \A k \in (i + 1)..Len(events) :
                    (events[k].op = "render" /\ events[k].row = events[i].row) =>
                        \E j \in (i + 1)..k : events[j].op = "prepare_cell"
        /\ events[i].op = "prepare_cell" =>
              \/ \E k \in (i + 1)..Len(events) :
                    /\ events[k].op = "render" /\ events[k].row = events[i].row
                    /\ \A j \in i..k : events[j].op \in {"prepare_cell", "render"}

C32_WitnessErr ==
    /\ t_decorator.present /\ t_failed
    /\ \E i \in 1..Len(AllEvents(t_calls)) : AllEvents(t_calls)[i].op = "prepare_cell"
    /\ \A i \in 1..Len(AllEvents(t_calls)) : AllEvents(t_calls)[i].op # "decorate_cell"


\* ------------------------------------------------------ table: re-rendering

\* the cell of column c emitted content in rendering i of its row after it had
\* reported has_more = FALSE in an earlier rendering j of the same row
ReEmits(j, i, c) ==
    /\ j < i
    /\ t_hist[j].id = t_hist[i].id
    /\ c <= Len(t_hist[j].cells) /\ c <= Len(t_hist[i].cells)
    /\ ~t_hist[j].cells[c].res.has_more /\ ~t_hist[j].cells[c].res.err
    /\ t_hist[j].cells[c].emitted > 0
    /\ t_hist[i].cells[c].emitted > 0

\* C33: a cell that has reported has_more = FALSE emits nothing when its row
\* is rendered again
C33_FinishedCellsEmitNothingAgain ==
    \A i \in 1..Len(t_hist) : \A j \in 1..Len(t_hist) :
        \A c \in 1..Len(t_hist[i].cells) : ~ReEmits(j, i, c)

\* the same holds for the cells that are paragraphs
C33_FinishedParagraphsEmitNothingAgain ==
    \A i \in 1..Len(t_hist) : \A j \in 1..Len(t_hist) :
        \A c \in 1..Len(t_hist[i].cells) :
            ReEmits(j, i, c) =>
                \E r \in 1..Len(t_rows) :
                    t_rows[r].id = t_hist[i].id /\ t_rows[r].cells[c].kind = "Text"

\* a row of a paragraph and a text paused for the paragraph and was rendered
\* again: the text was emitted in both renderings
C33_TextEmittedTwice ==
    \E i \in 1..Len(t_hist) : \E j \in 1..Len(t_hist) :
        /\ ReEmits(j, i, 2)
        /\ t_hist[j].has_more /\ t_hist[j].cells[1].res.has_more
        /\ t_hist[i].call = t_hist[j].call + 1
        /\ \E r \in 1..Len(t_rows) :
              /\ t_rows[r].id = t_hist[i].id
              /\ t_rows[r].cells[1].kind = "Paragraph"
              /\ t_rows[r].cells[2].kind = "Text"


\* ------------------------------------------------------ code block: resuming

\* the code the block holds after call k
CodeAfter(k) == IF k < Len(cb_hist) THEN cb_hist[k + 1].code_before ELSE cb_code

\* the text of the first m lines of a code with their terminators
LinesText(code, m) ==
    Concat(SubSeq(LinesWithEndings(code), 1, Min(m, Len(LinesWithEndings(code)))))

\* the text a printed line shows
RECURSIVE SpansText(_)
SpansText(line) == IF line = <<>> THEN <<>> ELSE line[1].s \o SpansText(Tail(line))

\* call k removed from the code the text of the lines it emitted, with their
\* terminators
DrainsEmitted(k) ==
    cb_hist[k].code_before = LinesText(cb_hist[k].code_before, Len(cb_hist[k].printed))
                                 \o CodeAfter(k)

\* every line of the original code was emitted once and in order by the calls
\* so far, and what is left is the rest of the code
RECURSIVE EmittedLines(_)
EmittedLines(k) ==
    IF k = 0 THEN <<>>
    ELSE EmittedLines(k - 1)
             \o [i \in 1..Len(cb_hist[k].printed) |-> SpansText(cb_hist[k].printed[i])]

EmittedOnce ==
    /\ Len(EmittedLines(Len(cb_hist))) <= Len(StrLines(cb_orig))
    /\ EmittedLines(Len(cb_hist))
           = SubSeq(StrLines(cb_orig), 1, Len(EmittedLines(Len(cb_hist))))

\* C34: after every render call the prefix removed from the code is the text
\* of the lines the call emitted with their terminators, and over the calls
\* every line is emitted once, with highlighting and with the fallback
C34_DrainsWhatWasEmitted ==
    /\ \A k \in 1..Len(cb_hist) : DrainsEmitted(k)
    /\ EmittedOnce

\* the same for the blocks that are highlighted
C34_HighlightedDrainsWhatWasEmitted ==
    ~LookupMiss =>
        /\ \A k \in 1..Len(cb_hist) : DrainsEmitted(k)
        /\ EmittedOnce

\* the fallback printed the first of two lines, left its terminator in the
\* code, and the next call printed what the first call had printed already or a
\* line that is not in the code
C34_FallbackEmitsAgain ==
    /\ LookupMiss
    /\ Len(cb_hist) = 2
    /\ Len(cb_hist[1].printed) = 1 /\ cb_hist[1].result.has_more
    /\ ~DrainsEmitted(1)
    /\ cb_hist[2].printed # <<>>
    /\ ~EmittedOnce


\* ------------------------------------------------------------ frame: size

\* C35: a FramedElement reports the width of its area and the height of its
\* child plus one line thickness in the first call plus one line thickness in
\* the call in which the child has no more; when the child's height is within
\* the area it was given, the height reported is within the frame's area
C35_FrameSizeWithinArea ==
    \A i \in 1..Len(f_hist) :
        LET h == f_hist[i] IN
            ~h.result.err =>
                /\ h.result.size.width = h.area.width
                /\ h.result.size.height =
                       h.child.size.height
                           + (IF i = 1 THEN LineThickness ELSE 0)
                           + (IF h.child.has_more THEN 0 ELSE LineThickness)
                /\ h.result.has_more = h.child.has_more
                /\ h.child.size.height <= FElementArea(h.area, i = 1).height =>
                       h.result.size.height <= h.area.height

\* a child that fills the area it was given in the first call, which is also
\* its last: the frame reports the whole height of its area
C35_Witness ==
    /\ Len(f_hist) = 1
    /\ ~f_hist[1].result.err /\ ~f_hist[1].child.has_more
    /\ f_hist[1].child.size.height > 0
    /\ f_hist[1].child.size.height = FElementArea(f_hist[1].area, TRUE).height
    /\ f_hist[1].result.size.height = f_hist[1].area.height

\* a resumed chunk that pauses again and fills the area
C35_WitnessResumed ==
    /\ Len(f_hist) = 2
    /\ ~f_hist[2].result.err /\ f_hist[2].child.has_more
    /\ f_hist[2].child.size.height > 0
    /\ f_hist[2].result.size.height = f_hist[2].child.size.height
    /\ f_hist[2].result.size.height = f_hist[2].area.height - LineThickness


\* ------------------------------------------------ paragraph: one-word lines

C36_NoEmptyLine ==
    \A k \in 1..Len(p_last.placed) : Len(p_last.placed[k].line) >= 1

PreparingDecorator(h) ==
    [t_decorator EXCEPT !.num_columns = Len(t_column_weights),
                        !.num_rows = t_calls[h.call].n,
                        !.last_row = h.last_row_before]

\* the borders prepare_cell reserves a margin for, for the cell of column c
\* (counted from 1)
Reserved(h, c) ==
    [top |-> print_top(PreparingDecorator(h), h.row),
     right |-> print_right(PreparingDecorator(h), c - 1),
     bottom |-> print_bottom(PreparingDecorator(h), h.row, FALSE),
     left |-> print_left(PreparingDecorator(h), c - 1)]

\* the cell of column c was rendered into the area prepare_cell returned
PreparedArea(h, c) ==
    h.cells[c].area =
        AddMargins(SplitHorizontally(h.area, t_column_weights)[c],
                   Thick(Reserved(h, c).top), Thick(Reserved(h, c).right),
                   Thick(Reserved(h, c).bottom), Thick(Reserved(h, c).left))

\* every cell of the row reported a height within the area it was given
CellsWithinAreas(h) ==
    \A c \in 1..Len(h.cells) : h.cells[c].res.size.height <= h.cells[c].area.height

\* C37: for every decorated cell the margins reserved by prepare_cell are the
\* borders decorate_cell draws, side by side, whatever the flags and the row's
\* has_more are; and the row height returned is within the area when the cells
\* are within theirs
C37_MarginsMatchBorders ==
    \A i \in 1..Len(t_hist) :
        LET h == t_hist[i] IN
            /\ \A c \in 1..Len(h.decor) :
                  /\ PreparedArea(h, c)
                  /\ h.decor[c].top = Reserved(h, c).top
                  /\ h.decor[c].right = Reserved(h, c).right
                  /\ h.decor[c].bottom = Reserved(h, c).bottom
                  /\ h.decor[c].left = Reserved(h, c).left
            /\ (h.decor # <<>> /\ CellsWithinAreas(h)) => h.total <= h.area.height

\* what holds instead: the margins at the top, the left and the right are the
\* borders drawn; the margin at the bottom is the border drawn when the row has
\* no more, and a row that pauses gets the continuation border whether a margin
\* was reserved or not; the row height is within the area plus one line
C37_MarginsMatchBordersButBottom ==
    \A i \in 1..Len(t_hist) :
        LET h == t_hist[i] IN
            /\ \A c \in 1..Len(h.decor) :
                  /\ PreparedArea(h, c)
                  /\ h.decor[c].top = Reserved(h, c).top
                  /\ h.decor[c].right = Reserved(h, c).right
                  /\ ~h.has_more => h.decor[c].bottom = Reserved(h, c).bottom
                  /\ h.has_more => h.decor[c].bottom = t_decorator.cont
                  /\ h.decor[c].left = Reserved(h, c).left
            /\ (h.decor # <<>> /\ CellsWithinAreas(h)) =>
                  /\ h.total <= h.area.height + LineThickness
                  /\ ~h.has_more => h.total <= h.area.height

\* a row paused with its cells within their areas, the continuation border was
\* drawn below it without a margin, and the row is higher than the area
C37_RowHigherThanArea ==
    \E i \in 1..Len(t_hist) :
        LET h == t_hist[i] IN
            /\ h.decor # <<>> /\ h.has_more
            /\ CellsWithinAreas(h)
            /\ h.row_height > 0
            /\ ~Reserved(h, 1).bottom /\ h.decor[1].bottom
            /\ h.total > h.area.height


\* ------------------------------------------- errors and resumption state

\* the last entry of a history
Last(hist) == hist[Len(hist)]

\* the step is a render call in which a child returned Err
LayoutChildFailed == ~ll_failed /\ ll_failed'
TableCellFailed == ~t_failed /\ t_failed'
FrameChildFailed == ~f_failed /\ f_failed'
BulletChildFailed == ~b_failed /\ b_failed'

\* a child's Err leaves the wrapper's resumption state as the child's call
\* found it: the cursor of a LinearLayout or a TableLayout is at the child or
\* the row that failed, not behind it, and not before where the call started;
\* is_first of a FramedElement and bullet_rendered of a BulletPoint keep their
\* values, and no frame line is drawn and no bullet is printed in the call
ErrorKeepsState ==
    /\ LayoutChildFailed =>
          /\ ll_render_idx' = Last(ll_hist').idx
          /\ ll_render_idx' >= ll_render_idx
          /\ \A i \in 1..Len(ll_hist') :
                (ll_hist'[i].call = Len(ll_calls') /\ i < Len(ll_hist')) =>
                    ll_hist'[i].idx < ll_render_idx'
    /\ TableCellFailed =>
          /\ t_render_idx' = Last(t_hist').row
          /\ t_render_idx' >= t_render_idx
          /\ Last(t_hist').decor = <<>>
          /\ t_decorator'.last_row <= t_render_idx'
    /\ FrameChildFailed =>
          /\ f_is_first' = f_is_first
          /\ ~Last(f_hist').top /\ ~Last(f_hist').bottom
          /\ ~Last(f_hist').left /\ ~Last(f_hist').right
    /\ BulletChildFailed =>
          /\ b_bullet_rendered' = b_bullet_rendered
          /\ ~Last(b_hist').printed

\* C38: when a child's render call returns Err the resumption state of the
\* wrapper around it is left as it was: render_idx of a LinearLayout and of a
\* TableLayout is not advanced, is_first of a FramedElement stays and no frame
\* line is drawn, and bullet_rendered of a BulletPoint stays false with no
\* bullet printed in that call
C38_ErrorKeepsStateBulletFalse ==
    [][ErrorKeepsState /\ (BulletChildFailed => ~b_bullet_rendered')]_vars

\* C38 (amended): the same with bullet_rendered keeping the value it had,
\* which is TRUE when the child returns Err in a later call than the first
C38_ErrorKeepsResumptionState == [][ErrorKeepsState]_vars

\* a bullet point whose child returned Err in the first call: bullet_rendered
\* is still FALSE and no bullet was printed
C38_Witness ==
    /\ root = "BulletPoint" /\ b_failed
    /\ Len(b_hist) = 1
    /\ ~b_bullet_rendered /\ ~b_hist[1].printed

\* a frame whose child returned Err in the second call, after the first chunk:
\* is_first is FALSE as the first call left it
C38_WitnessLate ==
    /\ root = "FramedElement" /\ f_failed
    /\ Len(f_hist) = 2
    /\ f_hist[1].child.size.height > 0
    /\ ~f_is_first

\* a bullet point whose child returned Err in the second call: bullet_rendered
\* is TRUE as the first call left it
C38_WitnessBulletLate ==
    /\ root = "BulletPoint" /\ b_failed
    /\ Len(b_hist) = 2
    /\ b_bullet_rendered /\ ~b_hist[2].printed

\* a layout whose second child returned Err: the cursor is at that child
C38_WitnessLayout ==
    /\ root = "LinearLayout" /\ ll_failed
    /\ ll_render_idx = 1 /\ Len(ll_elements) = 2

\* a table whose second row returned Err in a later call than its first row
C38_WitnessTable ==
    /\ root = "TableLayout" /\ t_failed
    /\ t_render_idx = 1 /\ Len(t_calls) = 2


\* ------------------------------------------------------------------ cursors

\* the step is a render call of the layout or of the table
LayoutRendered == ll_calls' # ll_calls
TableRendered == t_calls' # t_calls

\* the last render call returned has_more = FALSE and nothing was pushed since
LayoutDone ==
    /\ ll_calls # <<>> /\ ~ll_failed /\ ~ll_result.has_more
    /\ Last(ll_calls).n = Len(ll_elements)
TableDone ==
    /\ t_calls # <<>> /\ ~t_failed /\ ~t_result.has_more
    /\ Last(t_calls).n = Len(t_rows)

\* the cursors stay within 0..number of children and never go back, and a
\* render call after one that returned has_more = FALSE, with no push between
\* them, renders no child, reports no height and returns has_more = FALSE
CursorsInBounds ==
    /\ ll_render_idx' \in 0..Len(ll_elements') /\ ll_render_idx' >= ll_render_idx
    /\ t_render_idx' \in 0..Len(t_rows') /\ t_render_idx' >= t_render_idx
    /\ (LayoutDone /\ LayoutRendered) =>
          /\ ll_hist' = ll_hist
          /\ ll_result'.size.height = 0 /\ ~ll_result'.has_more /\ ~ll_result'.err
    /\ (TableDone /\ TableRendered) =>
          /\ t_hist' = t_hist
          /\ t_result'.size.height = 0 /\ ~t_result'.has_more /\ ~t_result'.err

\* C39: the cursors of LinearLayout and TableLayout are within bounds and
\* never decrease, a finished element renders nothing more, and every render
\* call of a TableLayout that returns Ok returns has_more = TRUE exactly when
\* render_idx is below the number of rows on return
C39_CursorsAndTableHasMore ==
    [][/\ CursorsInBounds
       /\ (TableRendered /\ ~t_failed') =>
             (t_result'.has_more <=> t_render_idx' < Len(t_rows'))]_vars

\* C39 (amended): the same, with has_more of a TableLayout as stated for
\* tables that have column weights; a table without column weights returns
\* has_more = FALSE whatever rows it holds, and its cursor stays at 0
C39_CursorsAndWeightedTableHasMore ==
    [][/\ CursorsInBounds
       /\ (TableRendered /\ ~t_failed') =>
             IF t_column_weights = <<>>
             THEN ~t_result'.has_more /\ t_render_idx' = 0 /\ t_result' = DefaultResult
             ELSE t_result'.has_more <=> t_render_idx' < Len(t_rows')]_vars

\* a table finished its two rows in two calls, the second row pushed after the
\* first call had returned has_more = FALSE
C39_Witness ==
    /\ root = "TableLayout" /\ t_column_weights # <<>>
    /\ Len(t_calls) = 2 /\ Len(t_rows) = 2
    /\ t_calls[1].n = 1 /\ ~t_calls[1].result.has_more
    /\ t_render_idx = 2 /\ ~t_result.has_more /\ ~t_failed

\* a table without column weights that holds a row returned has_more = FALSE
C39_WitnessNoWeights ==
    /\ root = "TableLayout" /\ t_column_weights = <<>>
    /\ Len(t_rows) = 1 /\ Len(t_calls) = 1
    /\ ~t_result.has_more /\ t_render_idx = 0

\* a layout was rendered again after it had finished, and rendered nothing
C39_WitnessLayoutDone ==
    /\ root = "LinearLayout"
    /\ Len(ll_calls) = 2 /\ Len(ll_elements) = 1
    /\ ~ll_calls[1].result.has_more /\ ll_calls[1].n = 1
    /\ \A i \in 1..Len(ll_hist) : ll_hist[i].call = 1
    /\ ll_render_idx = 1


\* ------------------------------------------------------ the pending words

\* the paragraph after a call of Paragraph::render with the area a, and what
\* the call returns
RenderFrom(a) ==
    Paragraph_render([text |-> p_text, words |-> p_words, alignment |-> p_alignment,
                      line_height |-> p_line_height], a, p_hyphenator)

\* the characters that are pending in a paragraph
PendingOf(p) == Concat(p.words) \o Concat(p.text)

\* Paragraph::render has been called
PCalled == p_last.area.width > 0

\* a call never adds a character to the pending ones, and removes at least one
\* when it places a line
QueueShrinks(out) ==
    /\ Len(PendingOf(out.p)) <= Len(Pending)
    /\ out.placed # <<>> => Len(PendingOf(out.p)) < Len(Pending)

\* a call that places no line of a paragraph that has pending characters
\* leaves them as they are and returns has_more = TRUE and no size
NothingPlaced(out) ==
    (out.placed = <<>> /\ Pending # <<>>) =>
        /\ PendingOf(out.p) = Pending
        /\ out.result = [size |-> ZeroSize, has_more |-> TRUE, err |-> FALSE]

\* after a call that returned has_more = FALSE nothing is pending, and a
\* further call prints nothing and returns the default result
Finished(out) ==
    (PCalled /\ ~p_result.has_more) =>
        /\ p_words = <<>> /\ p_text = <<>>
        /\ out.printed = <<>> /\ out.placed = <<>>
        /\ out.result = DefaultResult

C40_WitnessNothingPlaced ==
    /\ root = "Paragraph" /\ PCalled /\ ~p_failed
    /\ p_last.area.height > 0 /\ ~FitsHeight(p_last.area, p_line_height)
    /\ p_last.placed = <<>> /\ p_result.has_more /\ p_result.size = ZeroSize
    /\ Pending = p_orig /\ Pending # <<>>

\* a paragraph with text has finished and its queue is empty
C40_WitnessFinished ==
    /\ root = "Paragraph" /\ PCalled /\ ~p_failed
    /\ p_orig # <<>> /\ ~p_result.has_more
    /\ p_words = <<>> /\ p_text = <<>> /\ p_emitted # <<>>

\* the paragraph of an empty string has finished with an empty word in its
\* queue, and the call reported the height of a line
C40_WitnessEmptyWord ==
    /\ root = "Paragraph" /\ PCalled /\ ~p_failed
    /\ p_orig = <<>> /\ ~p_result.has_more
    /\ p_words = <<<<>>>> /\ p_result.size.height = p_line_height

\* a call placed a line and returned Err, and pruned nothing
C40_WitnessErr ==
    /\ root = "Paragraph" /\ p_failed
    /\ p_last.placed # <<>> /\ Pending = p_orig

====
